---- MODULE Spec2Model ----
(***************************************************************************)
(* A model of mmjp: the double-array trie (double_array_trie.c), the       *)
(* terminal-value helpers, the UTF-8 offset table and the semi-Markov       *)
(* decoders of npycrf_lite.c.                                              *)
(* Every operator is translated from the C function of the same name.      *)
(***************************************************************************)
EXTENDS Integers, Sequences, FiniteSets, TLC

VARIABLES da, keys, vals, setAt, lastRc, lastKey, everFailed, opCount,
          model, text, ws, vit, nb, smp,
          offs, tok, um, fit, mf, ll, sa, ccv, sup, scan, emi

trieVars == <<da, keys, vals, setAt, lastRc, lastKey, everFailed, opCount>>

decodeVars == <<model, text, ws, vit, nb, smp>>

\* The state of the codepoint-offset builder, of the tokenizer's loop and of
\* the unigram model.
\* The state of the lossless codec, of the suffix array, of the character
\* classifiers, of the supervised CRF trainer, of one state of the forward
\* scan and of the emission precomputation.
auxVars == <<ll, sa, ccv, sup, scan, emi>>

ioVars == <<fit, mf, ll, sa, ccv, sup, scan, emi>>

toolVars == <<offs, tok, um, fit, mf, ll, sa, ccv, sup, scan, emi>>

vars == <<da, keys, vals, setAt, lastRc, lastKey, everFailed, opCount,
          model, text, ws, vit, nb, smp,
          offs, tok, um, fit, mf, ll, sa, ccv, sup, scan, emi>>

(***************************************************************************)
(* Bounds of the model.                                                    *)
(***************************************************************************)
MaxByte == 2
MaxLen == 2
MaxOps == 3
MaxAllocs == 1
MaxTextLen == 4
MaxCp == 4
MaxWordLen == 3
MaxNbest == 3

(***************************************************************************)
(* Program constants.                                                      *)
(***************************************************************************)
DA_OK == 0
DA_ERR_BADARG == -1
DA_ERR_NOMEM == -2
DA_ERR_FULL == -3
DA_ROOT == 1
DA_ALPHABET_SIZE == 256
DA_MIN_CAPACITY == 16
DA_INDEX_MAX == 2147483647
NPYCRF_ID_NONE == 65535
NPYCRF_ID_BOS == 65534
NPYCRF_Q == 8
NPYCRF_SCORE_NEG_INF == -1073741823
NPYCRF_CC_OTHER == 0
NPYCRF_CC_SPACE == 1
NPYCRF_CC_DIGIT == 2
NPYCRF_CC_ALPHA == 3
NPYCRF_CC_HIRAGANA == 4
NPYCRF_CC_KATAKANA == 5
NPYCRF_CC_KANJI == 6
NPYCRF_CC_FULLWIDTH == 7
NPYCRF_CC_SYMBOL == 8
NPYCRF_CC_UTF8_2BYTE == 9
NPYCRF_CC_UTF8_3BYTE == 10
NPYCRF_CC_UTF8_4BYTE == 11
NPYCRF_CC_BOS == 250
NPYCRF_CC_EOS == 251
NPYCRF_CC_MODE_ASCII == 0
NPYCRF_CC_MODE_UTF8LEN == 1
NPYCRF_CC_MODE_RANGES == 2
NPYCRF_CC_MODE_COMPAT == 3
INT16_MAX == 32767
INT16_MIN == -32768
NBEST_CAP == 64

(***************************************************************************)
(* Small helpers.                                                          *)
(***************************************************************************)
\* The value of a local variable: S is always {body : r \in {call}}, the body with
\* r bound to the result of the call, so that the call is evaluated once.
Only(S) == CHOOSE x \in S : TRUE

MinOf(S) == CHOOSE x \in S : \A y \in S : x <= y
MaxOf(S) == CHOOSE x \in S : \A y \in S : x >= y

RECURSIVE SortedSeq(_)
SortedSeq(S) == IF S = {} THEN <<>> ELSE <<MinOf(S)>> \o SortedSeq(S \ {MinOf(S)})

SeqRange(s) == {s[i] : i \in 1..Len(s)}

RECURSIVE SeqsUpTo(_, _)
SeqsUpTo(S, n) ==
  IF n = 0 THEN {<<>>}
  ELSE LET shorter == SeqsUpTo(S, n - 1)
       IN shorter \cup {Append(s, x) : s \in {t \in shorter : Len(t) = n - 1}, x \in S}

(***************************************************************************)
(* double_array_trie.c                                                     *)
(***************************************************************************)

\* da_trie_clear applied to fresh zeroed arrays (da_trie_init_dynamic / _static).
da_trie_init(capacity, dynamic) ==
  [base     |-> [i \in 0..(capacity - 1) |-> IF i = DA_ROOT THEN 1 ELSE 0],
   check    |-> [i \in 0..(capacity - 1) |-> IF i = DA_ROOT THEN DA_ROOT ELSE 0],
   capacity |-> capacity,
   dynamic  |-> dynamic]

da_is_initialized(d) == d.capacity > DA_ROOT

\* The doubling loop of da_reserve.  need is at most an int32 index plus 256, so
\* the size_t overflow exit (newcap < prev) is not reachable with a 64-bit size_t.
RECURSIVE da_grow_cap(_, _)
da_grow_cap(newcap, need) ==
  IF newcap >= need THEN newcap ELSE da_grow_cap(newcap * 2, need)

\* A growth that has released the old arrays when the allocation fails.
da_reserve_not_transactional(d, need, fuel) ==
  IF need <= d.capacity THEN [rc |-> DA_OK, da |-> d, fuel |-> fuel]
  ELSE IF ~d.dynamic THEN [rc |-> DA_ERR_FULL, da |-> d, fuel |-> fuel]
  ELSE LET newcap == da_grow_cap(IF d.capacity = 0 THEN 256 ELSE d.capacity, need)
       IN IF fuel = 0
          THEN [rc |-> DA_ERR_NOMEM,
                da |-> [d EXCEPT !.check = [i \in DOMAIN d.check |-> 0]],
                fuel |-> fuel]
          ELSE [rc |-> DA_OK,
                da |-> [base     |-> [i \in 0..(newcap - 1) |->
                                        IF i < d.capacity THEN d.base[i] ELSE 0],
                        check    |-> [i \in 0..(newcap - 1) |->
                                        IF i < d.capacity THEN d.check[i] ELSE 0],
                        capacity |-> newcap,
                        dynamic  |-> d.dynamic],
                fuel |-> fuel - 1]

\* fuel: how many more calloc pairs succeed during the call in progress.
da_reserve(d, need, fuel) ==
  IF need <= d.capacity THEN [rc |-> DA_OK, da |-> d, fuel |-> fuel]
  ELSE IF ~d.dynamic THEN [rc |-> DA_ERR_FULL, da |-> d, fuel |-> fuel]
  ELSE LET newcap == da_grow_cap(IF d.capacity = 0 THEN 256 ELSE d.capacity, need)
       IN IF fuel = 0
          THEN [rc |-> DA_ERR_NOMEM, da |-> d, fuel |-> fuel]
          ELSE [rc |-> DA_OK,
                da |-> [base     |-> [i \in 0..(newcap - 1) |->
                                        IF i < d.capacity THEN d.base[i] ELSE 0],
                        check    |-> [i \in 0..(newcap - 1) |->
                                        IF i < d.capacity THEN d.check[i] ELSE 0],
                        capacity |-> newcap,
                        dynamic  |-> d.dynamic],
                fuel |-> fuel - 1]

da_next(d, cur, code) ==
  IF ~da_is_initialized(d) THEN 0
  ELSE IF cur <= 0 \/ cur >= d.capacity THEN 0
  ELSE LET b == d.base[cur]
           idx == b + code
       IN IF b <= 0 THEN 0
          ELSE IF idx >= d.capacity THEN 0
          ELSE IF idx = cur THEN 0
          ELSE IF d.check[idx] = cur THEN idx
          ELSE 0

\* The codes are collected in ascending order of c.
da_collect_children_codes(d, parent) ==
  LET b == d.base[parent]
  IN IF b <= 0 THEN <<>>
     ELSE SortedSeq({c \in 0..(DA_ALPHABET_SIZE - 1) :
                       /\ b + c # parent
                       /\ b + c < d.capacity
                       /\ d.check[b + c] = parent})

da_codes_contains(codes, code) == code \in SeqRange(codes)

RECURSIVE da_find_base_from(_, _, _, _, _)
da_find_base_from(d, parent, codes, fuel, b) ==
  IF b > DA_INDEX_MAX THEN [rc |-> DA_ERR_FULL, b |-> 0, da |-> d, fuel |-> fuel]
  ELSE
  LET maxc == MaxOf(SeqRange(codes) \cup {0})
  IN Only({
     IF r.rc # DA_OK THEN [rc |-> r.rc, b |-> 0, da |-> r.da, fuel |-> r.fuel]
     ELSE IF \A i \in 1..Len(codes) :
                /\ b + codes[i] # parent
                /\ r.da.check[b + codes[i]] \in {0, parent}
          THEN [rc |-> DA_OK, b |-> b, da |-> r.da, fuel |-> r.fuel]
          ELSE da_find_base_from(r.da, parent, codes, r.fuel, b + 1)
     : r \in {da_reserve(d, b + maxc + 1, fuel)} })

da_find_base(d, parent, codes, fuel) ==
  IF Len(codes) = 0 THEN [rc |-> DA_ERR_BADARG, b |-> 0, da |-> d, fuel |-> fuel]
  ELSE da_find_base_from(d, parent, codes, fuel, 1)

\* First loop of da_relocate_children: da_reserve(nn + 1) for each child.
RECURSIVE da_relocate_reserve(_, _, _, _, _)
da_relocate_reserve(d, codes, new_base, fuel, i) ==
  IF i > Len(codes) THEN [rc |-> DA_OK, da |-> d, fuel |-> fuel]
  ELSE Only({
          IF r.rc # DA_OK THEN r
          ELSE da_relocate_reserve(r.da, codes, new_base, r.fuel, i + 1)
          : r \in {da_reserve(d, new_base + codes[i] + 1, fuel)} })

\* A single-pass rewrite: check = old_child becomes new_child at once.
da_mark_grandchildren_single_pass(check, capacity, b, old_child, new_child) ==
  [g \in DOMAIN check |->
     IF g >= b /\ g < b + DA_ALPHABET_SIZE /\ g < capacity /\ check[g] = old_child
     THEN new_child ELSE check[g]]

\* First pass over the grandchildren of child i: check = old_child becomes -new_child.
da_mark_grandchildren(check, capacity, b, old_child, new_child) ==
  [g \in DOMAIN check |->
     IF g >= b /\ g < b + DA_ALPHABET_SIZE /\ g < capacity /\ check[g] = old_child
     THEN -new_child ELSE check[g]]

\* Second pass: -new_child becomes new_child.
da_unmark_grandchildren(check, capacity, b, new_child) ==
  [g \in DOMAIN check |->
     IF g >= b /\ g < b + DA_ALPHABET_SIZE /\ g < capacity /\ check[g] = -new_child
     THEN new_child ELSE check[g]]

RECURSIVE da_mark_pass(_, _, _, _, _, _, _)
da_mark_pass(check, capacity, codes, child_base, old_base, new_base, i) ==
  IF i > Len(codes) THEN check
  ELSE da_mark_pass(
         IF child_base[i] <= 0 THEN check
         ELSE da_mark_grandchildren(check, capacity, child_base[i],
                                    old_base + codes[i], new_base + codes[i]),
         capacity, codes, child_base, old_base, new_base, i + 1)

RECURSIVE da_unmark_pass(_, _, _, _, _, _)
da_unmark_pass(check, capacity, codes, child_base, new_base, i) ==
  IF i > Len(codes) THEN check
  ELSE da_unmark_pass(
         IF child_base[i] <= 0 THEN check
         ELSE da_unmark_grandchildren(check, capacity, child_base[i], new_base + codes[i]),
         capacity, codes, child_base, new_base, i + 1)

\* da_relocate_children after its first loop returned rs.
da_relocate_moved(d, parent, new_base, codes, rs) ==
  LET old_base == d.base[parent]
  IN IF rs.rc # DA_OK THEN rs
     ELSE
     LET d1 == rs.da
         n == Len(codes)
         child_base == [i \in 1..n |-> d1.base[old_base + codes[i]]]
         old_idx == {old_base + codes[i] : i \in 1..n}
         new_idx == {new_base + codes[i] : i \in 1..n}
         \* clear the old slots, then write the new slots
         base2 == [x \in DOMAIN d1.base |->
                     IF x \in new_idx THEN child_base[CHOOSE i \in 1..n : new_base + codes[i] = x]
                     ELSE IF x \in old_idx THEN 0
                     ELSE d1.base[x]]
         check2 == [x \in DOMAIN d1.check |->
                     IF x \in new_idx THEN parent
                     ELSE IF x \in old_idx THEN 0
                     ELSE d1.check[x]]
         check3 == da_mark_pass(check2, d1.capacity, codes, child_base, old_base, new_base, 1)
         check4 == da_unmark_pass(check3, d1.capacity, codes, child_base, new_base, 1)
     IN [rc |-> DA_OK,
         da |-> [d1 EXCEPT !.base = [base2 EXCEPT ![parent] = new_base], !.check = check4],
         fuel |-> rs.fuel]

da_relocate_children(d, parent, new_base, fuel) ==
  Only({ Only({ da_relocate_moved(d, parent, new_base, codes, rs)
                : rs \in {da_relocate_reserve(d, codes, new_base, fuel, 1)} })
         : codes \in {da_collect_children_codes(d, parent)} })

\* Claim a free slot for parent --code--> (check = parent, base = 0).
da_claim(d, idx, parent) ==
  [d EXCEPT !.check = [@ EXCEPT ![idx] = parent], !.base = [@ EXCEPT ![idx] = 0]]

\* The collision branch of da_ensure_transition.
da_ensure_collision(d, parent, code, fuel) ==
  LET have == da_collect_children_codes(d, parent)
      codes == IF da_codes_contains(have, code) THEN have ELSE Append(have, code)
  IN Only({
     IF fb.rc # DA_OK THEN [rc |-> fb.rc, next |-> 0, da |-> fb.da, fuel |-> fb.fuel]
     ELSE Only({
        IF rl.rc # DA_OK THEN [rc |-> rl.rc, next |-> 0, da |-> rl.da, fuel |-> rl.fuel]
        ELSE Only({
           IF rv.rc # DA_OK THEN [rc |-> rv.rc, next |-> 0, da |-> rv.da, fuel |-> rv.fuel]
           ELSE IF rv.da.check[fb.b + code] # 0
                THEN [rc |-> DA_ERR_FULL, next |-> 0, da |-> rv.da, fuel |-> rv.fuel]
                ELSE [rc |-> DA_OK, next |-> fb.b + code,
                      da |-> da_claim(rv.da, fb.b + code, parent), fuel |-> rv.fuel]
           : rv \in {da_reserve(rl.da, fb.b + code + 1, rl.fuel)} })
        : rl \in {da_relocate_children(fb.da, parent, fb.b, fb.fuel)} })
     : fb \in {da_find_base(d, parent, codes, fuel)} })

\* The part of da_ensure_transition after base[parent] is known to be b > 0.
da_ensure_at(d, parent, code, fuel, b) ==
  LET idx == b + code
  IN Only({
     IF rv.rc # DA_OK THEN [rc |-> rv.rc, next |-> 0, da |-> rv.da, fuel |-> rv.fuel]
     ELSE IF rv.da.check[idx] = parent
          THEN [rc |-> DA_OK, next |-> idx, da |-> rv.da, fuel |-> rv.fuel]
     ELSE IF rv.da.check[idx] = 0
          THEN [rc |-> DA_OK, next |-> idx,
                da |-> da_claim(rv.da, idx, parent), fuel |-> rv.fuel]
     ELSE da_ensure_collision(rv.da, parent, code, rv.fuel)
     : rv \in {da_reserve(d, idx + 1, fuel)} })

da_ensure_transition(d, parent, code, fuel) ==
  IF ~da_is_initialized(d) \/ parent <= 0 \/ parent >= d.capacity
  THEN [rc |-> DA_ERR_BADARG, next |-> 0, da |-> d, fuel |-> fuel]
  ELSE IF d.base[parent] <= 0
       THEN Only({
               IF fb.rc # DA_OK
               THEN [rc |-> fb.rc, next |-> 0, da |-> fb.da, fuel |-> fb.fuel]
               ELSE da_ensure_at([fb.da EXCEPT !.base = [@ EXCEPT ![parent] = fb.b]],
                                 parent, code, fb.fuel, fb.b)
               : fb \in {da_find_base(d, parent, <<code>>, fuel)} })
       ELSE da_ensure_at(d, parent, code, fuel, d.base[parent])

\* The loop of da_trie_add_bytes from byte i on, then the terminal marker (code 0).
RECURSIVE da_add_from(_, _, _, _, _)
da_add_from(d, bytes, fuel, cur, i) ==
  LET code == IF i <= Len(bytes) THEN bytes[i] ELSE 0
  IN Only({
     IF r.rc # DA_OK THEN [rc |-> r.rc, da |-> r.da, fuel |-> r.fuel]
     ELSE IF i > Len(bytes) THEN [rc |-> DA_OK, da |-> r.da, fuel |-> r.fuel]
     ELSE da_add_from(r.da, bytes, r.fuel, r.next, i + 1)
     : r \in {da_ensure_transition(d, cur, code, fuel)} })

da_trie_add_bytes(d, bytes, fuel) ==
  IF Len(bytes) = 0 \/ ~da_is_initialized(d)
  THEN [rc |-> DA_ERR_BADARG, da |-> d, fuel |-> fuel]
  ELSE da_add_from(d, bytes, fuel, DA_ROOT, 1)

RECURSIVE da_walk(_, _, _, _)
da_walk(d, bytes, cur, i) ==
  IF i > Len(bytes) THEN cur
  ELSE Only({ IF nx = 0 THEN 0 ELSE da_walk(d, bytes, nx, i + 1)
              : nx \in {da_next(d, cur, bytes[i])} })

da_trie_search_prefix_bytes(d, bytes) ==
  IF ~da_is_initialized(d) THEN 0 ELSE da_walk(d, bytes, DA_ROOT, 1)

\* A lookup that forgets the terminal marker.
da_trie_contains_bytes_no_term(d, bytes) ==
  IF ~da_is_initialized(d) THEN FALSE ELSE da_walk(d, bytes, DA_ROOT, 1) # 0

da_trie_contains_bytes(d, bytes) ==
  IF ~da_is_initialized(d) THEN FALSE
  ELSE Only({ cur # 0 /\ da_next(d, cur, 0) # 0
              : cur \in {da_walk(d, bytes, DA_ROOT, 1)} })

(***************************************************************************)
(* npycrf_lite.c and unilm_mdl.c: the read-only transitions and the        *)
(* terminal values.                                                        *)
(***************************************************************************)
da_next_ro_local(d, cur, code) ==
  IF cur <= 0 \/ cur >= d.capacity THEN 0
  ELSE LET b == d.base[cur]
           idx == b + code
       IN IF b <= 0 THEN 0
          ELSE IF idx >= d.capacity THEN 0
          ELSE IF d.check[idx] = cur THEN idx
          ELSE 0

unilm_da_next_raw(d, cur, code) ==
  IF cur <= 0 \/ cur >= d.capacity THEN 0
  ELSE LET b == d.base[cur]
           idx == b + code
       IN IF b <= 0 THEN 0
          ELSE IF idx >= d.capacity THEN 0
          ELSE IF d.check[idx] = cur THEN idx
          ELSE 0

RECURSIVE da_walk_ro_local(_, _, _, _)
da_walk_ro_local(d, key, cur, i) ==
  IF i > Len(key) THEN cur
  ELSE Only({ IF nx = 0 THEN 0 ELSE da_walk_ro_local(d, key, nx, i + 1)
              : nx \in {da_next_ro_local(d, cur, key[i])} })

\* [ok, id]: ok = 0 when the key has no terminal value.
npycrf_da_ro_get_term_value(d, key) ==
  Only({ Only({
     IF cur = 0 \/ term = 0 THEN [ok |-> 0, id |-> NPYCRF_ID_NONE]
     ELSE IF d.base[term] >= 0 THEN [ok |-> 0, id |-> NPYCRF_ID_NONE]
     ELSE IF -d.base[term] - 1 > 65535 THEN [ok |-> 0, id |-> NPYCRF_ID_NONE]
     ELSE [ok |-> 1, id |-> -d.base[term] - 1]
     : term \in {IF cur = 0 THEN 0 ELSE da_next_ro_local(d, cur, 0)} })
     : cur \in {da_walk_ro_local(d, key, 1, 1)} })

\* The walk of npycrf_da_set_term_value after the key was added: 0 is the BADARG exit.
RECURSIVE da_set_walk(_, _, _, _)
da_set_walk(d, key, cur, i) ==
  LET b == d.base[cur]
      idx == b + (IF i <= Len(key) THEN key[i] ELSE 0)
  IN IF b <= 0 \/ idx >= d.capacity THEN 0
     ELSE IF d.check[idx] # cur THEN 0
     ELSE IF i > Len(key) THEN idx
     ELSE da_set_walk(d, key, idx, i + 1)

\* An encoding that loses id 0.
term_encode_no_offset(id) == -id

\* The value written into base[term] for id.
term_encode(id) == -id - 1

npycrf_da_set_term_value(d, key, id, fuel) ==
  Only({
     IF a.rc # DA_OK THEN a
     ELSE Only({
             IF tidx = 0 THEN [rc |-> DA_ERR_BADARG, da |-> a.da, fuel |-> a.fuel]
             ELSE [rc |-> DA_OK,
                   da |-> [a.da EXCEPT !.base = [@ EXCEPT ![tidx] = term_encode(id)]],
                   fuel |-> a.fuel]
             : tidx \in {da_set_walk(a.da, key, 1, 1)} })
     : a \in {da_trie_add_bytes(d, key, fuel)} })

(***************************************************************************)
(* npycrf_lite.c: UTF-8, character classes, CRF features, language model.  *)
(* A C array is held as a sequence; At and Put index it from 0.            *)
(***************************************************************************)
At(a, i) == a[i + 1]
Put(a, i, v) == [a EXCEPT ![i + 1] = v]
Fill(n, v) == [i \in 1..n |-> v]

q16_mul_q8(a_q8, b_q8) == (a_q8 * b_q8) \div (2 ^ NPYCRF_Q)

\* (c & 0xC0) == 0x80
utf8_is_cont(c) == c \div 64 = 2

\* [ok, cp, io]: io is the position after the codepoint, unchanged on failure.
utf8_decode1(s, len, i) ==
  LET fail == [ok |-> 0, cp |-> 0, io |-> i]
  IN IF i >= len THEN fail
     ELSE LET c0 == At(s, i)
          IN IF c0 < 128 THEN [ok |-> 1, cp |-> c0, io |-> i + 1]
             ELSE IF c0 \div 32 = 6
             THEN IF i + 1 >= len THEN fail
                  ELSE LET c1 == At(s, i + 1)
                           cp == (c0 % 32) * 64 + (c1 % 64)
                       IN IF ~utf8_is_cont(c1) THEN fail
                          ELSE IF cp < 128 THEN fail
                          ELSE [ok |-> 1, cp |-> cp, io |-> i + 2]
             ELSE IF c0 \div 16 = 14
             THEN IF i + 2 >= len THEN fail
                  ELSE LET c1 == At(s, i + 1)
                           c2 == At(s, i + 2)
                           cp == (c0 % 16) * 4096 + (c1 % 64) * 64 + (c2 % 64)
                       IN IF ~utf8_is_cont(c1) \/ ~utf8_is_cont(c2) THEN fail
                          ELSE IF cp < 2048 THEN fail
                          ELSE IF cp >= 55296 /\ cp <= 57343 THEN fail
                          ELSE [ok |-> 1, cp |-> cp, io |-> i + 3]
             ELSE IF c0 \div 8 = 30
             THEN IF i + 3 >= len THEN fail
                  ELSE LET c1 == At(s, i + 1)
                           c2 == At(s, i + 2)
                           c3 == At(s, i + 3)
                           cp == (c0 % 8) * 262144 + (c1 % 64) * 4096
                                   + (c2 % 64) * 64 + (c3 % 64)
                       IN IF ~utf8_is_cont(c1) \/ ~utf8_is_cont(c2) \/ ~utf8_is_cont(c3)
                          THEN fail
                          ELSE IF cp < 65536 THEN fail
                          ELSE IF cp > 1114111 THEN fail
                          ELSE [ok |-> 1, cp |-> cp, io |-> i + 4]
             ELSE fail

\* The loop of npycrf_utf8_make_offsets from byte i on; n = Len(off) entries written.
RECURSIVE make_offsets_from(_, _, _, _, _)
make_offsets_from(utf8, len, out_cap, i, off) ==
  IF i >= len
  THEN IF Len(off) >= out_cap THEN [n |-> 0, off |-> off]
       ELSE [n |-> Len(off), off |-> Append(off, len % 65536)]
  ELSE IF Len(off) + 1 >= out_cap THEN [n |-> 0, off |-> off]
  ELSE LET d == utf8_decode1(utf8, len, i)
           off1 == Append(off, i % 65536)
       IN IF d.ok = 0 THEN [n |-> 0, off |-> off1]
          ELSE make_offsets_from(utf8, len, out_cap, d.io, off1)

\* [n, off]: n = 0 both for the empty input and for an error.
npycrf_utf8_make_offsets(utf8, len, out_cap) ==
  make_offsets_from(utf8, len, out_cap, 0, <<>>)

char_class_ascii(cp) ==
  IF cp \in {32, 9, 10, 13} THEN NPYCRF_CC_SPACE
  ELSE IF cp >= 48 /\ cp <= 57 THEN NPYCRF_CC_DIGIT
  ELSE IF (cp >= 65 /\ cp <= 90) \/ (cp >= 97 /\ cp <= 122) THEN NPYCRF_CC_ALPHA
  ELSE NPYCRF_CC_SYMBOL

is_lossless_meta(cp) == cp >= 9600 /\ cp <= 9604

char_class_utf8len(cp) ==
  IF cp <= 127 THEN char_class_ascii(cp)
  ELSE IF cp <= 2047 THEN NPYCRF_CC_UTF8_2BYTE
  ELSE IF cp <= 65535 THEN NPYCRF_CC_UTF8_3BYTE
  ELSE NPYCRF_CC_UTF8_4BYTE

\* The binary search of char_class_from_ranges over ranges[lo..hi).
RECURSIVE char_class_bsearch(_, _, _, _)
char_class_bsearch(ranges, cp, lo, hi) ==
  IF lo >= hi THEN NPYCRF_CC_OTHER
  ELSE LET mid == lo + (hi - lo) \div 2
       IN IF cp < At(ranges, mid).lo THEN char_class_bsearch(ranges, cp, lo, mid)
          ELSE IF cp > At(ranges, mid).hi THEN char_class_bsearch(ranges, cp, mid + 1, hi)
          ELSE At(ranges, mid).class_id

char_class_from_ranges(ranges, count, cp) ==
  IF count = 0 THEN NPYCRF_CC_OTHER
  ELSE IF count <= 8
  THEN LET hits == {i \in 0..(count - 1) : cp >= At(ranges, i).lo /\ cp <= At(ranges, i).hi}
       IN IF hits = {} THEN NPYCRF_CC_OTHER ELSE At(ranges, MinOf(hits)).class_id
  ELSE char_class_bsearch(ranges, cp, 0, count)

\* The hard-coded Japanese ranges (cc == NULL and NPYCRF_CC_MODE_COMPAT).
char_class_compat(cp) ==
  IF cp >= 12352 /\ cp <= 12447 THEN NPYCRF_CC_HIRAGANA
  ELSE IF cp >= 12448 /\ cp <= 12543 THEN NPYCRF_CC_KATAKANA
  ELSE IF cp >= 19968 /\ cp <= 40959 THEN NPYCRF_CC_KANJI
  ELSE IF cp >= 65280 /\ cp <= 65519 THEN NPYCRF_CC_FULLWIDTH
  ELSE NPYCRF_CC_OTHER

\* The NULL pointer passed for cc.
CC_NULL == [null |-> TRUE, mode |-> NPYCRF_CC_MODE_COMPAT,
            fallback |-> NPYCRF_CC_MODE_COMPAT, ranges |-> <<>>, range_count |-> 0]

npycrf_char_class_cp(cc, cp) ==
  IF is_lossless_meta(cp) THEN NPYCRF_CC_SPACE
  ELSE IF cp <= 127 THEN char_class_ascii(cp)
  ELSE IF cc.null THEN char_class_compat(cp)
  ELSE IF cc.mode = NPYCRF_CC_MODE_ASCII THEN NPYCRF_CC_OTHER
  ELSE IF cc.mode = NPYCRF_CC_MODE_UTF8LEN THEN char_class_utf8len(cp)
  ELSE IF cc.mode = NPYCRF_CC_MODE_RANGES
  THEN LET cls == char_class_from_ranges(cc.ranges, cc.range_count, cp)
       IN IF cls # NPYCRF_CC_OTHER THEN cls
          ELSE IF cc.fallback = NPYCRF_CC_MODE_UTF8LEN THEN char_class_utf8len(cp)
          ELSE NPYCRF_CC_OTHER
  ELSE IF cc.mode = NPYCRF_CC_MODE_COMPAT THEN char_class_compat(cp)
  ELSE NPYCRF_CC_OTHER

\* The decoder's classifier: the model's cc configuration is not consulted.
char_class(cp) == npycrf_char_class_cp(CC_NULL, cp)

npycrf_feat_key(template_id, label, v1, v2) ==
  template_id * 16777216 + label * 65536 + v1 * 256 + v2

RECURSIVE crf_bsearch(_, _, _, _)
crf_bsearch(crf, key, lo, hi) ==
  IF lo >= hi THEN 0
  ELSE LET mid == lo + (hi - lo) \div 2
           k == At(crf.feat_key, mid)
       IN IF k = key THEN At(crf.feat_w, mid)
          ELSE IF k < key THEN crf_bsearch(crf, key, mid + 1, hi)
          ELSE crf_bsearch(crf, key, lo, mid)

crf_lookup_w(crf, key) ==
  IF crf.feat_count = 0 THEN 0 ELSE crf_bsearch(crf, key, 0, crf.feat_count)

clamp_int16(v) == IF v > INT16_MAX THEN INT16_MAX ELSE IF v < INT16_MIN THEN INT16_MIN ELSE v

crf_emit_pos(crf, label, prev_c, cur_c, next_c) ==
  clamp_int16(crf_lookup_w(crf, npycrf_feat_key(0, label, cur_c, 0))
            + crf_lookup_w(crf, npycrf_feat_key(1, label, prev_c, 0))
            + crf_lookup_w(crf, npycrf_feat_key(2, label, next_c, 0))
            + crf_lookup_w(crf, npycrf_feat_key(3, label, prev_c, cur_c))
            + crf_lookup_w(crf, npycrf_feat_key(4, label, cur_c, next_c)))

lm_unigram_logp(lm, id, len_cp) ==
  IF id # NPYCRF_ID_NONE /\ id # NPYCRF_ID_BOS /\ id < lm.vocab_size
  THEN At(lm.logp_uni, id)
  ELSE clamp_int16(lm.unk_base + lm.unk_per_cp * len_cp)

\* The 32-bit key (prev << 16) | curr is held as the pair <<prev, curr>> and
\* ordered as the number is.
bigram_key_less(k, key) == k[1] < key[1] \/ (k[1] = key[1] /\ k[2] < key[2])

RECURSIVE lm_bigram_bsearch(_, _, _, _, _)
lm_bigram_bsearch(lm, key, curr_backoff, lo, hi) ==
  IF lo >= hi THEN curr_backoff
  ELSE LET mid == lo + (hi - lo) \div 2
           k == At(lm.bigram_key, mid)
       IN IF k = key THEN At(lm.logp_bi, mid)
          ELSE IF bigram_key_less(k, key)
          THEN lm_bigram_bsearch(lm, key, curr_backoff, mid + 1, hi)
          ELSE lm_bigram_bsearch(lm, key, curr_backoff, lo, mid)

lm_bigram_logp(lm, prev, curr, curr_backoff) ==
  IF lm.bigram_size = 0 THEN curr_backoff
  ELSE IF prev = NPYCRF_ID_NONE \/ curr = NPYCRF_ID_NONE THEN curr_backoff
  ELSE lm_bigram_bsearch(lm, <<prev, curr>>, curr_backoff, 0, lm.bigram_size)

span_index(end_pos, len, L) == end_pos * (L + 1) + len

\* The character class of codepoint i of the text.
class_at(utf8, len, off, i) == char_class(utf8_decode1(utf8, len, At(off, i)).cp)

RECURSIVE prefix_sums(_, _)
prefix_sums(a, n) == IF n = 0 THEN <<0>>
                     ELSE LET p == prefix_sums(a, n - 1) IN Append(p, At(p, n - 1) + At(a, n - 1))

\* [rc, emit0, emit1, pref_emit0]
precompute_emissions(m, utf8, len, off, n_cp) ==
  IF \E i \in 0..(n_cp - 1) : utf8_decode1(utf8, len, At(off, i)).ok = 0
  THEN [rc |-> -2, emit0 |-> <<>>, emit1 |-> <<>>, pref_emit0 |-> <<>>]
  ELSE LET prev(i) == IF i > 0 THEN class_at(utf8, len, off, i - 1) ELSE NPYCRF_CC_BOS
           next(i) == IF i + 1 < n_cp THEN class_at(utf8, len, off, i + 1) ELSE NPYCRF_CC_EOS
           emit(label) == [x \in 1..n_cp |->
                             crf_emit_pos(m.crf, label, prev(x - 1),
                                          class_at(utf8, len, off, x - 1), next(x - 1))]
           emit0 == emit(0)
       IN [rc |-> 0, emit0 |-> emit0, emit1 |-> emit(1),
           pref_emit0 |-> prefix_sums(emit0, n_cp)]

\* The bytes [bi, b1) of one codepoint fed to the trie from node.
RECURSIVE span_bytes(_, _, _, _, _)
span_bytes(trie, utf8, node, bi, b1) ==
  IF bi >= b1 THEN node
  ELSE LET nx == da_next_ro_local(trie, node, At(utf8, bi))
       IN IF nx = 0 THEN 0 ELSE span_bytes(trie, utf8, nx, bi + 1, b1)

\* The words of length l..max_l that start at start_cp.
RECURSIVE span_walk(_, _, _, _, _, _, _, _)
span_walk(m, utf8, off, start_cp, l, max_l, node, span_id) ==
  IF l > max_l THEN span_id
  ELSE LET cp_i == start_cp + l - 1
           nd == span_bytes(m.lm.trie, utf8, node, At(off, cp_i), At(off, cp_i + 1))
       IN IF nd = 0 THEN span_id
          ELSE LET term == da_next_ro_local(m.lm.trie, nd, 0)
                   v == IF term # 0 THEN m.lm.trie.base[term] ELSE 0
                   found == term # 0 /\ v < 0 /\ (-v - 1) <= 65535
               IN span_walk(m, utf8, off, start_cp, l + 1, max_l, nd,
                            IF found
                            THEN Put(span_id, span_index(start_cp + l, l, m.max_word_len), -v - 1)
                            ELSE span_id)

RECURSIVE span_starts(_, _, _, _, _, _)
span_starts(m, utf8, off, n_cp, start_cp, span_id) ==
  IF start_cp >= n_cp THEN span_id
  ELSE LET L == m.max_word_len
           max_l == IF start_cp + L <= n_cp THEN L ELSE n_cp - start_cp
       IN span_starts(m, utf8, off, n_cp, start_cp + 1,
                      span_walk(m, utf8, off, start_cp, 1, max_l, 1, span_id))

\* [rc, span_id, span_luni, bp_prevlen]
precompute_spans(m, utf8, len, off, n_cp, w) ==
  LET L == m.max_word_len
      none == [rc |-> -1, span_id |-> <<>>, span_luni |-> <<>>, bp_prevlen |-> <<>>]
  IN IF L = 0 THEN none
     ELSE IF n_cp > w.max_n_cp \/ L > w.max_word_len THEN [none EXCEPT !.rc = -2]
     ELSE LET spanN == (n_cp + 1) * (L + 1)
              init == Put(Fill(spanN, NPYCRF_ID_NONE), span_index(0, 0, L), NPYCRF_ID_BOS)
              span_id == span_starts(m, utf8, off, n_cp, 0, init)
              span_luni == [x \in 1..spanN |->
                              LET end_cp == (x - 1) \div (L + 1)
                                  l == (x - 1) % (L + 1)
                              IN IF end_cp >= 1 /\ l >= 1 /\ l <= (IF end_cp <= L THEN end_cp ELSE L)
                                 THEN lm_unigram_logp(m.lm, span_id[x], l)
                                 ELSE 0]
          IN [rc |-> 0, span_id |-> span_id, span_luni |-> span_luni,
              bp_prevlen |-> Fill(spanN, 0)]

crf_seg_score(m, w, s, t) ==
  LET k == t - s
  IN IF k = 0 THEN 0
     ELSE IF k = 1 THEN At(w.emit1, s) + m.crf.trans11
     ELSE At(w.emit1, s) + m.crf.trans10
          + (At(w.pref_emit0, t) - At(w.pref_emit0, s + 1))
          + m.crf.trans00 * (k - 2)
          + m.crf.trans01

(***************************************************************************)
(* npycrf_decode: Viterbi over the semi-Markov lattice.                    *)
(***************************************************************************)

\* A swap loop that stops after the outermost pair.
reverse_boundaries_ends_only(out) ==
  [i \in 1..Len(out) |-> IF i = 1 THEN out[Len(out)]
                         ELSE IF i = Len(out) THEN out[1]
                         ELSE out[i]]

\* The swap loop that turns the collected boundaries into ascending order.
reverse_boundaries(out) == [i \in 1..Len(out) |-> out[Len(out) + 1 - i]]

\* A scan that lets the later of two equal candidates win.
viterbi_better_or_equal(cand, best) == cand >= best

\* The comparison of the scan over previous word lengths j >= 1.
viterbi_better(cand, best) == cand > best

\* The loop over j = 1..jmax for one state; acc = [best, best_j, cand], where
\* cand[j] logs the candidate score the scan computed for j (NEG_INF: none).
\* The iterations j..jmax are taken as those of j..mid, then those of
\* mid + 1..jmax, so that a long loop does not nest deeply.
RECURSIVE viterbi_scan_j(_, _, _, _, _, _, _, _, _)
viterbi_scan_j(m, w, ring, prev_pos, seg, curr, j, jmax, acc) ==
  IF j > jmax THEN acc
  ELSE IF j < jmax
  THEN LET mid == j + (jmax - j) \div 2
       IN Only({ viterbi_scan_j(m, w, ring, prev_pos, seg, curr, mid + 1, jmax, a)
                 : a \in {viterbi_scan_j(m, w, ring, prev_pos, seg, curr, j, mid, acc)} })
  ELSE LET L == m.max_word_len
           prev_score == At(ring, (prev_pos % (L + 1)) * (L + 1) + j)
       IN IF prev_score = NPYCRF_SCORE_NEG_INF
          THEN acc
          ELSE LET prev_id == At(w.span_id, span_index(prev_pos, j, L))
                   lm == lm_bigram_logp(m.lm, prev_id, curr.id, curr.luni)
                   cand == prev_score + seg + q16_mul_q8(m.lambda0, lm)
                   log == Put(acc.cand, j, cand)
               IN IF viterbi_better(cand, acc.best)
                  THEN [best |-> cand, best_j |-> j % 256, cand |-> log]
                  ELSE [acc EXCEPT !.cand = log]

\* One state (pos, k) of the forward pass; st = [dp_ring, bp_prevlen, cand].
viterbi_state(m, w, st, pos, k) ==
  LET L == m.max_word_len
      start == pos - k
      seg == crf_seg_score(m, w, start, pos)
      idx_curr == span_index(pos, k, L)
      curr == [id |-> At(w.span_id, idx_curr), luni |-> At(w.span_luni, idx_curr)]
      none == Fill(L + 1, NPYCRF_SCORE_NEG_INF)
      prev0 == At(st.dp_ring, (start % (L + 1)) * (L + 1) + 0)
      cand0 == prev0 + seg
               + q16_mul_q8(m.lambda0, lm_bigram_logp(m.lm, NPYCRF_ID_BOS, curr.id, curr.luni))
      acc0 == IF start = 0 /\ prev0 # NPYCRF_SCORE_NEG_INF
              THEN [best |-> cand0, best_j |-> 0, cand |-> Put(none, 0, cand0)]
              ELSE [best |-> NPYCRF_SCORE_NEG_INF, best_j |-> 0, cand |-> none]
      jmax == IF start <= L THEN start ELSE L
  IN Only({
     [dp_ring    |-> Put(st.dp_ring, (pos % (L + 1)) * (L + 1) + k, acc.best),
      bp_prevlen |-> Put(st.bp_prevlen, idx_curr, acc.best_j),
      cand       |-> Put(st.cand, idx_curr, acc.cand)]
     : acc \in {viterbi_scan_j(m, w, st.dp_ring, start, seg, curr, 1, jmax, acc0)} })

RECURSIVE viterbi_scan_k(_, _, _, _, _, _)
viterbi_scan_k(m, w, st, pos, k, kmax) ==
  IF k > kmax THEN st
  ELSE viterbi_scan_k(m, w, viterbi_state(m, w, st, pos, k), pos, k + 1, kmax)

\* A forward pass on a ring one row short: the row cleared for pos is the row of
\* pos - L, which the words of length L that end at pos still read.
RECURSIVE viterbi_scan_pos_short_ring(_, _, _, _, _)
viterbi_scan_pos_short_ring(m, w, st, pos, n_cp) ==
  IF pos > n_cp THEN st
  ELSE LET L == m.max_word_len
           row == (pos + 1) % (L + 1)
           cleared == [x \in 1..Len(st.dp_ring) |->
                         IF (x - 1) \div (L + 1) = row THEN NPYCRF_SCORE_NEG_INF
                         ELSE st.dp_ring[x]]
           kmax == IF pos <= L THEN pos ELSE L
       IN viterbi_scan_pos_short_ring(m, w,
              viterbi_scan_k(m, w, [st EXCEPT !.dp_ring = cleared], pos, 1, kmax),
              pos + 1, n_cp)

\* The forward pass from position pos on: the ring row of pos is cleared first.
RECURSIVE viterbi_scan_pos(_, _, _, _, _)
viterbi_scan_pos(m, w, st, pos, n_cp) ==
  IF pos > n_cp THEN st
  ELSE LET L == m.max_word_len
           row == pos % (L + 1)
           cleared == [x \in 1..Len(st.dp_ring) |->
                         IF (x - 1) \div (L + 1) = row THEN NPYCRF_SCORE_NEG_INF
                         ELSE st.dp_ring[x]]
           kmax == IF pos <= L THEN pos ELSE L
       IN viterbi_scan_pos(m, w,
              viterbi_scan_k(m, w, [st EXCEPT !.dp_ring = cleared], pos, 1, kmax),
              pos + 1, n_cp)

\* The choice of the final word length: [best_final, best_k].
RECURSIVE viterbi_final(_, _, _, _, _, _)
viterbi_final(ring, end_row, L, k, kmax_end, acc) ==
  IF k > kmax_end THEN acc
  ELSE LET v == At(ring, end_row * (L + 1) + k)
       IN viterbi_final(ring, end_row, L, k + 1, kmax_end,
                        IF v > acc.best_final THEN [best_final |-> v, best_k |-> k] ELSE acc)

\* The backtrack loop: [rc, out], out in collection order (n_cp first).
RECURSIVE viterbi_backtrack(_, _, _, _, _, _)
viterbi_backtrack(bp_prevlen, L, n_cp, pos, k, out) ==
  LET out1 == Append(out, pos)
  IN IF pos = 0 THEN [rc |-> 0, out |-> out1]
     ELSE LET start == pos - k
              j == At(bp_prevlen, span_index(pos, k, L))
          IN IF start = 0 THEN [rc |-> 0, out |-> Append(out1, 0)]
             ELSE IF j = 0 THEN [rc |-> -22, out |-> out1]
             ELSE IF Len(out1) > n_cp + 1 THEN [rc |-> -23, out |-> out1]
             ELSE viterbi_backtrack(bp_prevlen, L, n_cp, start, j, out1)

\* What a decoder leaves when it returns rc before any output is written.
decode_fail(rc) ==
  [called |-> TRUE, rc |-> rc, b |-> <<>>, count |-> 0, score |-> 0,
   bp_prevlen |-> <<>>, cand |-> <<>>]

\* The offsets, emissions and spans every decoder computes first:
\* [rc, n_cp, w], w the work arrays.
decode_prepare(m, utf8, len, work, cap_needs_n_cp, out_b_cap) ==
  LET none == [rc |-> -1, n_cp |-> 0, w |-> work]
  IN IF m.max_word_len = 0 THEN none
     ELSE IF work.max_n_cp = 0 THEN [none EXCEPT !.rc = -2]
     ELSE Only({
             IF mo.n = 0 THEN [none EXCEPT !.rc = -3]
             ELSE IF mo.n > work.max_n_cp THEN [none EXCEPT !.rc = -3]
             ELSE IF m.max_word_len > work.max_word_len THEN [none EXCEPT !.rc = -4]
             ELSE IF out_b_cap < (IF cap_needs_n_cp THEN mo.n + 1 ELSE 2)
             THEN [none EXCEPT !.rc = -5]
             ELSE Only({
                     IF e.rc # 0 THEN [none EXCEPT !.rc = -10]
                     ELSE Only({
                             IF sp.rc # 0 THEN [none EXCEPT !.rc = -11]
                             ELSE [rc |-> 0, n_cp |-> mo.n,
                                   w |-> [max_n_cp |-> work.max_n_cp,
                                          max_word_len |-> work.max_word_len,
                                          cp_off |-> mo.off,
                                          emit0 |-> e.emit0, emit1 |-> e.emit1,
                                          pref_emit0 |-> e.pref_emit0,
                                          span_id |-> sp.span_id,
                                          span_luni |-> sp.span_luni,
                                          bp_prevlen |-> sp.bp_prevlen]]
                             : sp \in {precompute_spans(m, utf8, len, mo.off, mo.n, work)} })
                     : e \in {precompute_emissions(m, utf8, len, mo.off, mo.n)} })
             : mo \in {npycrf_utf8_make_offsets(utf8, len, work.max_n_cp + 1)} })

\* npycrf_decode after the forward pass left st; p is the prepared input.
viterbi_finish(m, p, st, out_b_cap) ==
  LET L == m.max_word_len
      n_cp == p.n_cp
      got == [called |-> TRUE, rc |-> 0, b |-> <<>>, count |-> 0, score |-> 0,
              bp_prevlen |-> st.bp_prevlen, cand |-> st.cand]
  IN Only({
     IF n_cp = 0
     THEN [got EXCEPT !.b = <<0, 0>>, !.count = 2, !.score = At(st.dp_ring, 0)]
     ELSE IF fin.best_k = 0 \/ fin.best_final = NPYCRF_SCORE_NEG_INF
     THEN [got EXCEPT !.rc = -20]
     ELSE IF out_b_cap < n_cp + 1 THEN [got EXCEPT !.rc = -21]
     ELSE Only({ Only({
             IF bt.rc # 0 THEN [got EXCEPT !.rc = bt.rc, !.b = bt.out]
             ELSE IF b[1] # 0 \/ b[Len(b)] # n_cp THEN [got EXCEPT !.rc = -24, !.b = b]
             ELSE [got EXCEPT !.b = b, !.count = Len(b), !.score = fin.best_final]
             : b \in {reverse_boundaries(bt.out)} })
             : bt \in {viterbi_backtrack(st.bp_prevlen, L, n_cp, n_cp, fin.best_k, <<>>)} })
     : fin \in {viterbi_final(st.dp_ring, n_cp % (L + 1), L, 1,
                              IF n_cp <= L THEN n_cp ELSE L,
                              [best_final |-> NPYCRF_SCORE_NEG_INF, best_k |-> 0])} })

npycrf_decode(m, utf8, len, work, out_b_cap) ==
  Only({
  IF p.rc # 0 THEN decode_fail(p.rc)
  ELSE LET L == m.max_word_len
           spanN == (p.n_cp + 1) * (L + 1)
           st0 == [dp_ring |-> Put(Fill((L + 1) * (L + 1), NPYCRF_SCORE_NEG_INF),
                                   0, m.crf.bos_to1),
                   bp_prevlen |-> p.w.bp_prevlen,
                   cand |-> Fill(spanN, Fill(L + 1, NPYCRF_SCORE_NEG_INF))]
       IN Only({ viterbi_finish(m, p, st, out_b_cap)
                 : st \in {viterbi_scan_pos(m, p.w, st0, 1, p.n_cp)} })
  : p \in {decode_prepare(m, utf8, len, work, FALSE, out_b_cap)} })

(***************************************************************************)
(* npycrf_decode_nbest. An entry is [s, len, rank]: a score with the       *)
(* previous word length and rank (forward) or the final k and rank (top).  *)
(***************************************************************************)
nbest_none == [s |-> NPYCRF_SCORE_NEG_INF, len |-> 0, rank |-> 0]

\* An insertion that puts a candidate before the entries it equals.
nbest_better_or_equal(cand, s) == cand >= s

\* The comparison of the insertion into a sorted list of nbest entries.
nbest_better(cand, s) == cand > s

\* Insert e before the first entry it beats; the last entry drops out.
nbest_insert(best, nbest, e) ==
  LET T == {t \in 0..(nbest - 1) : nbest_better(e.s, At(best, t).s)}
  IN IF T = {} THEN best
     ELSE LET t == MinOf(T)
          IN [u \in 1..nbest |-> IF u - 1 < t THEN best[u]
                                 ELSE IF u - 1 = t THEN e
                                 ELSE best[u - 1]]

\* The loop over the ranks pr of one previous state.
RECURSIVE nbest_scan_pr(_, _, _, _, _, _)
nbest_scan_pr(prev_row, nbest, edge, pl, pr, best) ==
  IF pr >= nbest THEN best
  ELSE LET prev == At(prev_row, pr).s
       IN nbest_scan_pr(prev_row, nbest, edge, pl, pr + 1,
             IF prev = NPYCRF_SCORE_NEG_INF THEN best
             ELSE nbest_insert(best, nbest,
                               [s |-> prev + edge, len |-> pl % 256, rank |-> pr % 256]))

RECURSIVE nbest_scan_j(_, _, _, _, _, _, _, _, _, _)
nbest_scan_j(m, w, dp, nbest, start, seg, curr, j, jmax, best) ==
  IF j > jmax THEN best
  ELSE LET L == m.max_word_len
           prev_id == At(w.span_id, span_index(start, j, L))
           lm == lm_bigram_logp(m.lm, prev_id, curr.id, curr.luni)
           edge == seg + q16_mul_q8(m.lambda0, lm)
       IN nbest_scan_j(m, w, dp, nbest, start, seg, curr, j + 1, jmax,
             nbest_scan_pr(At(dp, start * (L + 1) + j), nbest, edge, j, 0, best))

\* One state (pos, k) of the forward pass over dp.
nbest_state(m, w, dp, nbest, pos, k) ==
  LET L == m.max_word_len
      start == pos - k
      seg == crf_seg_score(m, w, start, pos)
      idx_curr == span_index(pos, k, L)
      curr == [id |-> At(w.span_id, idx_curr), luni |-> At(w.span_luni, idx_curr)]
      best0 == Fill(nbest, nbest_none)
      edge0 == seg + q16_mul_q8(m.lambda0,
                                lm_bigram_logp(m.lm, NPYCRF_ID_BOS, curr.id, curr.luni))
      jmax == IF start <= L THEN start ELSE L
      best == IF start = 0
              THEN nbest_scan_pr(At(dp, 0), nbest, edge0, 0, 0, best0)
              ELSE nbest_scan_j(m, w, dp, nbest, start, seg, curr, 1, jmax, best0)
  IN Put(dp, pos * (L + 1) + k, best)

RECURSIVE nbest_scan_k(_, _, _, _, _, _, _)
nbest_scan_k(m, w, dp, nbest, pos, k, kmax) ==
  IF k > kmax THEN dp
  ELSE nbest_scan_k(m, w, nbest_state(m, w, dp, nbest, pos, k), nbest, pos, k + 1, kmax)

RECURSIVE nbest_scan_pos(_, _, _, _, _, _)
nbest_scan_pos(m, w, dp, nbest, pos, n_cp) ==
  IF pos > n_cp THEN dp
  ELSE LET L == m.max_word_len
       IN nbest_scan_pos(m, w,
             nbest_scan_k(m, w, dp, nbest, pos, 1, IF pos <= L THEN pos ELSE L),
             nbest, pos + 1, n_cp)

\* The ranks r of the final state (n_cp, k) offered to the global top list.
RECURSIVE nbest_top_r(_, _, _, _, _)
nbest_top_r(row, nbest, k, r, top) ==
  IF r >= nbest THEN top
  ELSE LET s == At(row, r).s
       IN nbest_top_r(row, nbest, k, r + 1,
             IF s = NPYCRF_SCORE_NEG_INF THEN top
             ELSE nbest_insert(top, nbest, [s |-> s, len |-> k, rank |-> r % 256]))

RECURSIVE nbest_top_k(_, _, _, _, _, _, _)
nbest_top_k(dp, nbest, n_cp, L, k, kmax_end, top) ==
  IF k > kmax_end THEN top
  ELSE nbest_top_k(dp, nbest, n_cp, L, k + 1, kmax_end,
                   nbest_top_r(At(dp, n_cp * (L + 1) + k), nbest, k, 0, top))

RECURSIVE nbest_backtrack(_, _, _, _, _, _, _)
nbest_backtrack(dp, L, n_cp, pos, k, r, out) ==
  LET out1 == Append(out, pos)
  IN IF pos = 0 THEN [rc |-> 0, out |-> out1]
     ELSE LET start == pos - k
              e == At(At(dp, pos * (L + 1) + k), r)
          IN IF start = 0 THEN [rc |-> 0, out |-> Append(out1, 0)]
             ELSE IF e.len = 0 THEN [rc |-> -30, out |-> out1]
             ELSE IF Len(out1) > n_cp + 1 THEN [rc |-> -31, out |-> out1]
             ELSE nbest_backtrack(dp, L, n_cp, start, e.len, e.rank, out1)

\* The backtrack of the paths i..nbest-1; res.rc counts the paths written.
RECURSIVE nbest_paths(_, _, _, _, _, _, _)
nbest_paths(dp, top, nbest, L, n_cp, i, res) ==
  IF i >= nbest THEN res
  ELSE LET t == At(top, i)
       IN IF t.s = NPYCRF_SCORE_NEG_INF \/ t.len = 0
          THEN nbest_paths(dp, top, nbest, L, n_cp, i + 1, res)
          ELSE Only({ Only({
                  IF bt.rc # 0 THEN [res EXCEPT !.rc = bt.rc, !.b = Put(@, i, bt.out)]
                  ELSE IF b[1] # 0 \/ b[Len(b)] # n_cp
                  THEN [res EXCEPT !.rc = -32, !.b = Put(@, i, b)]
                  ELSE nbest_paths(dp, top, nbest, L, n_cp, i + 1,
                          [res EXCEPT !.rc = @ + 1, !.b = Put(@, i, b),
                                      !.count = Put(@, i, Len(b)),
                                      !.scores = Put(@, i, t.s)])
                  : b \in {reverse_boundaries(bt.out)} })
                  : bt \in {nbest_backtrack(dp, L, n_cp, n_cp, t.len, t.rank, <<>>)} })

nbest_fail(nbest, rc) ==
  [called |-> TRUE, nbest |-> nbest, rc |-> rc, b |-> <<>>, count |-> <<>>, scores |-> <<>>]

\* rc is the number of paths written, or a negative error.
npycrf_decode_nbest(m, utf8, len, work, nbest, out_b_cap) ==
  IF nbest = 0 THEN nbest_fail(nbest, -1)
  ELSE Only({
          IF p.rc # 0 THEN nbest_fail(nbest, p.rc)
          ELSE IF nbest > NBEST_CAP THEN nbest_fail(nbest, -13)
          ELSE LET L == m.max_word_len
                   n_cp == p.n_cp
                   states == (n_cp + 1) * (L + 1)
                   dp0 == Put(Fill(states, Fill(nbest, nbest_none)), 0,
                              Put(Fill(nbest, nbest_none), 0,
                                  [s |-> m.crf.bos_to1, len |-> 0, rank |-> 0]))
               IN Only({ Only({
                     nbest_paths(dp, top, nbest, L, n_cp, 0,
                        [called |-> TRUE, nbest |-> nbest, rc |-> 0,
                         b |-> Fill(nbest, <<>>), count |-> Fill(nbest, 0),
                         scores |-> Fill(nbest, 0)])
                     : top \in {nbest_top_k(dp, nbest, n_cp, L, 1,
                                            IF n_cp <= L THEN n_cp ELSE L,
                                            Fill(nbest, nbest_none))} })
                     : dp \in {nbest_scan_pos(m, p.w, dp0, nbest, 1, n_cp)} })
          : p \in {decode_prepare(m, utf8, len, work, TRUE, out_b_cap)} })

(***************************************************************************)
(* npycrf_decode_sample. The doubles of alpha are abstracted to "is not    *)
(* -INFINITY"; the draws u and r of the generator are nondeterministic, so *)
(* the sampler is the set of the results it can return over all seeds.     *)
(***************************************************************************)

\* alpha after the forward pass from position pos on.
RECURSIVE sample_forward(_, _, _, _)
sample_forward(L, n_cp, pos, alpha) ==
  IF pos > n_cp THEN alpha
  ELSE LET kmax == IF pos <= L THEN pos ELSE L
           reached(k) == LET start == pos - k
                             jmax == IF start <= L THEN start ELSE L
                         IN IF start = 0 THEN At(alpha, 0)
                            ELSE \E j \in 1..jmax : At(alpha, start * (L + 1) + j)
       IN sample_forward(L, n_cp, pos + 1,
             [x \in 1..Len(alpha) |->
                IF (x - 1) \div (L + 1) = pos /\ (x - 1) % (L + 1) \in 1..kmax
                THEN reached((x - 1) % (L + 1))
                ELSE alpha[x]])

\* A draw over j = 0..jmax that does not skip the states alpha excludes.
sample_picks_from_zero(alpha, L, start) == 0..(IF start <= L THEN start ELSE L)

\* The previous word lengths the backward draw at (pos, k) can pick.
sample_picks(alpha, L, start) ==
  {j \in 1..(IF start <= L THEN start ELSE L) : At(alpha, start * (L + 1) + j)}

\* The backward sampling loop: the set of [rc, out] over all draws.
RECURSIVE sample_backward(_, _, _, _, _, _)
sample_backward(alpha, L, n_cp, pos, k, out) ==
  LET out1 == Append(out, pos)
  IN IF pos = 0 THEN {[rc |-> 0, out |-> out1]}
     ELSE LET start == pos - k
          IN IF start = 0 THEN {[rc |-> 0, out |-> Append(out1, 0)]}
             ELSE IF sample_picks(alpha, L, start) = {} THEN {[rc |-> -22, out |-> out1]}
             ELSE IF Len(out1) > n_cp + 1 THEN {[rc |-> -23, out |-> out1]}
             ELSE UNION {sample_backward(alpha, L, n_cp, start, j, out1) :
                           j \in sample_picks(alpha, L, start)}

\* The Q8.8 score of the sampled path from segment i on (b indexed from 0).
RECURSIVE sample_score(_, _, _, _, _)
sample_score(m, w, b, i, total) ==
  IF i + 1 >= Len(b) THEN total
  ELSE LET L == m.max_word_len
           s == At(b, i)
           t == At(b, i + 1)
           len_cp == t - s
       IN IF len_cp = 0 \/ len_cp > L THEN sample_score(m, w, b, i + 1, total)
          ELSE LET idx == span_index(t, len_cp, L)
                   plen == IF i > 0 THEN At(b, i) - At(b, i - 1) ELSE 0
                   prev_id == IF i > 0 /\ plen > 0 /\ plen <= L
                              THEN At(w.span_id, span_index(At(b, i), plen, L))
                              ELSE NPYCRF_ID_BOS
                   lm == lm_bigram_logp(m.lm, prev_id, At(w.span_id, idx), At(w.span_luni, idx))
               IN sample_score(m, w, b, i + 1,
                     total + crf_seg_score(m, w, s, t) + q16_mul_q8(m.lambda0, lm))

sample_fail(rc) == [called |-> TRUE, rc |-> rc, b |-> <<>>, count |-> 0, score |-> 0]

\* npycrf_decode_sample after the forward pass left alpha: the final word length
\* and the backward draws, then the score of the sampled path.
sample_draw(m, p, alpha, out_b_cap) ==
  LET L == m.max_word_len
      n_cp == p.n_cp
      kmax_end == IF n_cp <= L THEN n_cp ELSE L
  IN IF n_cp = 0
     THEN {[called |-> TRUE, rc |-> 0, b |-> <<0, 0>>, count |-> 2,
            score |-> m.crf.bos_to1]}
     ELSE IF \A k \in 1..kmax_end : ~At(alpha, n_cp * (L + 1) + k)
     THEN {sample_fail(-20)}
     ELSE IF out_b_cap < n_cp + 1 THEN {sample_fail(-21)}
     ELSE {LET b == reverse_boundaries(bt.out)
           IN IF bt.rc # 0 THEN [sample_fail(bt.rc) EXCEPT !.b = bt.out]
              ELSE IF b[1] # 0 \/ b[Len(b)] # n_cp
              THEN [sample_fail(-24) EXCEPT !.b = b]
              ELSE [called |-> TRUE, rc |-> 0, b |-> b, count |-> Len(b),
                    score |-> sample_score(m, p.w, b, 0, m.crf.bos_to1)]
           : bt \in UNION {sample_backward(alpha, L, n_cp, n_cp, cur_k, <<>>) :
                             cur_k \in 1..kmax_end}}

\* The set of results of npycrf_decode_sample over all seeds; sample_buf holds
\* npycrf_samplebuf_size bytes.
npycrf_decode_sample(m, utf8, len, work, out_b_cap) ==
  Only({
  IF p.rc # 0 THEN {sample_fail(p.rc)}
  ELSE Only({ sample_draw(m, p, alpha, out_b_cap)
              : alpha \in {sample_forward(m.max_word_len, p.n_cp, 1,
                              Put(Fill((p.n_cp + 1) * (m.max_word_len + 1), FALSE),
                                  0, TRUE))} })
  : p \in {decode_prepare(m, utf8, len, work, FALSE, out_b_cap)} })

(***************************************************************************)
(* The decoders as a state machine: a model is loaded (its dictionary      *)
(* built with npycrf_da_set_term_value), a text and a workspace are given, *)
(* and the three decoders are called on them.                              *)
(***************************************************************************)

\* No call of a tool is in progress.
offs_idle == [pc |-> "idle"]

AuxIdle ==
  /\ ll = offs_idle /\ sa = offs_idle /\ ccv = offs_idle /\ sup = offs_idle
  /\ scan = offs_idle /\ emi = offs_idle

IoIdle == fit = offs_idle /\ mf = offs_idle /\ AuxIdle

ToolsIdle == offs = offs_idle /\ tok = offs_idle /\ um = [op |-> "idle"] /\ IoIdle

\* What the result variables hold before the call.
vit_idle == [called |-> FALSE, rc |-> 0, b |-> <<>>, count |-> 0, score |-> 0,
             bp_prevlen |-> <<>>, cand |-> <<>>]
nb_idle == [called |-> FALSE, nbest |-> 0, rc |-> 0, b |-> <<>>, count |-> <<>>,
            scores |-> <<>>]
smp_idle == [called |-> FALSE, rc |-> 0, b |-> <<>>, count |-> 0, score |-> 0]

\* npycrf_model_t without the arrays of lm.trie, which are da.
model_of(L, feats, trans, lambda0, dict, bigrams) ==
  [max_word_len |-> L,
   lambda0 |-> lambda0,
   crf |-> [feat_key |-> [i \in 1..Len(feats) |-> feats[i].key],
            feat_w |-> [i \in 1..Len(feats) |-> feats[i].w],
            feat_count |-> Len(feats),
            trans00 |-> trans.trans00, trans01 |-> trans.trans01,
            trans10 |-> trans.trans10, trans11 |-> trans.trans11,
            bos_to1 |-> trans.bos_to1],
   lm |-> [logp_uni |-> [i \in 1..Len(dict) |-> -256 * i],
           vocab_size |-> Len(dict),
           bigram_key |-> [i \in 1..Len(bigrams) |-> bigrams[i].key],
           logp_bi |-> [i \in 1..Len(bigrams) |-> bigrams[i].logp],
           bigram_size |-> Len(bigrams),
           unk_base |-> -768,
           unk_per_cp |-> -256]]

\* The model as the decoders see it: lm.trie is the read-only view of da.
the_model ==
  [model EXCEPT !.lm = [trie |-> da,
                        logp_uni |-> model.lm.logp_uni,
                        vocab_size |-> model.lm.vocab_size,
                        bigram_key |-> model.lm.bigram_key,
                        logp_bi |-> model.lm.logp_bi,
                        bigram_size |-> model.lm.bigram_size,
                        unk_base |-> model.lm.unk_base,
                        unk_per_cp |-> model.lm.unk_per_cp]]

TransZero == [trans00 |-> 0, trans01 |-> 0, trans10 |-> 0, trans11 |-> 0, bos_to1 |-> 0]

(***************************************************************************)
(* The trie as a state machine: keys are added and terminal values set,    *)
(* into a dynamic trie (whose allocator may fail) or a static one.         *)
(***************************************************************************)
KeyBytes == (1..MaxByte) \cup {DA_MIN_CAPACITY - 2}
Keys == SeqsUpTo(KeyBytes, MaxLen) \ {<<>>}
Queries == SeqsUpTo(KeyBytes, MaxLen + 1)
TermValues == {0, NPYCRF_ID_BOS}

\* A fresh dynamic trie on which nothing was called.
TrieIdle ==
  /\ da = da_trie_init(DA_MIN_CAPACITY, TRUE)
  /\ keys = {}
  /\ vals = <<>>
  /\ setAt = <<>>
  /\ lastRc = DA_OK
  /\ lastKey = <<>>
  /\ everFailed = FALSE
  /\ opCount = 0

\* No model is loaded and no decoder was called.
DecodeIdle ==
  /\ model = model_of(0, <<>>, TransZero, 0, <<>>, <<>>)
  /\ text = <<>>
  /\ ws = [max_n_cp |-> 0, max_word_len |-> 0]
  /\ vit = vit_idle
  /\ nb = nb_idle
  /\ smp = smp_idle

Init ==
  /\ \E dyn \in BOOLEAN : da = da_trie_init(DA_MIN_CAPACITY, dyn)
  /\ keys = {}
  /\ vals = <<>>
  /\ setAt = <<>>
  /\ lastRc = DA_OK
  /\ lastKey = <<>>
  /\ everFailed = FALSE
  /\ opCount = 0
  /\ model = model_of(0, <<>>, TransZero, 0, <<>>, <<>>)
  /\ text = <<>>
  /\ ws = [max_n_cp |-> 0, max_word_len |-> 0]
  /\ vit = vit_idle
  /\ nb = nb_idle
  /\ smp = smp_idle
  /\ ToolsIdle

\* da_trie_add_bytes(da, key, len); the allocator serves fuel more growths.
AddBytes ==
  /\ opCount < MaxOps
  /\ \E key \in Keys, fuel \in 0..MaxAllocs :
       \E r \in {da_trie_add_bytes(da, key, fuel)} :
          /\ da' = r.da
          /\ lastRc' = r.rc
          /\ lastKey' = key
          /\ keys' = IF r.rc = DA_OK THEN keys \cup {key} ELSE keys
          /\ everFailed' = (everFailed \/ r.rc # DA_OK)
  /\ opCount' = opCount + 1
  /\ UNCHANGED <<vals, setAt, decodeVars, toolVars>>

\* npycrf_da_set_term_value(da, key, key_len, id).
SetTermValue ==
  /\ opCount < MaxOps
  /\ \E key \in Keys, id \in TermValues, fuel \in 0..MaxAllocs :
       \E r \in {npycrf_da_set_term_value(da, key, id, fuel)} :
          /\ da' = r.da
          /\ lastRc' = r.rc
          /\ lastKey' = key
          /\ keys' = IF r.rc = DA_OK THEN keys \cup {key} ELSE keys
          /\ vals' = IF r.rc = DA_OK
                     THEN [k \in DOMAIN vals \cup {key} |-> IF k = key THEN id ELSE vals[k]]
                     ELSE vals
          /\ setAt' = IF r.rc = DA_OK
                      THEN [k \in DOMAIN setAt \cup {key} |->
                              IF k = key THEN da_set_walk(r.da, key, 1, 1) ELSE setAt[k]]
                      ELSE setAt
          /\ everFailed' = (everFailed \/ r.rc # DA_OK)
  /\ opCount' = opCount + 1
  /\ UNCHANGED <<decodeVars, toolVars>>

Next == AddBytes \/ SetTermValue

Spec == Init /\ [][Next]_vars

\* The inputs of the decoders: bytes 'a' and the two bytes of U+00E9.
TextBytes == {97, 195, 169}
Texts == SeqsUpTo(TextBytes, MaxTextLen)

\* The dictionaries: none, or "a" (id 0) and "a" U+00E9 (id 1).
Dicts == {<<>>, << <<97>>, <<97, 195, 169>> >>}

\* Feature tables, sorted by key as crf_lookup_w requires.
FeatTables ==
  {<<>>,
   <<[key |-> npycrf_feat_key(0, 1, NPYCRF_CC_ALPHA, 0), w |-> 64],
     [key |-> npycrf_feat_key(3, 0, NPYCRF_CC_ALPHA, NPYCRF_CC_OTHER), w |-> -32],
     [key |-> npycrf_feat_key(4, 1, NPYCRF_CC_OTHER, NPYCRF_CC_ALPHA), w |-> 16]>>}

Transitions ==
  {TransZero,
   [trans00 |-> -8, trans01 |-> 4, trans10 |-> -16, trans11 |-> 8, bos_to1 |-> 2]}

Lambdas == {0, 2 ^ NPYCRF_Q}

\* Bigram tables, sorted by key as lm_bigram_logp requires.
Bigrams ==
  {<<>>,
   <<[key |-> <<0, 1>>, logp |-> -16],
     [key |-> <<NPYCRF_ID_BOS, 0>>, logp |-> -32]>>}

\* The dictionary trie: word i of dict gets id i - 1.
RECURSIVE build_trie(_, _, _)
build_trie(d, dict, i) ==
  IF i > Len(dict) THEN d
  ELSE build_trie(npycrf_da_set_term_value(d, dict[i], i - 1, Len(dict)).da, dict, i + 1)

\* A model with its dictionary trie, and a text.
ModelAndText ==
  /\ \E dict \in Dicts :
       /\ da = build_trie(da_trie_init(DA_MIN_CAPACITY, TRUE), dict, 1)
       /\ keys = SeqRange(dict)
       /\ vals = [k \in SeqRange(dict) |-> (CHOOSE i \in 1..Len(dict) : dict[i] = k) - 1]
       /\ setAt = [k \in SeqRange(dict) |-> da_set_walk(da, k, 1, 1)]
       /\ opCount = Len(dict)
       /\ \E L \in 1..MaxWordLen, feats \in FeatTables, trans \in Transitions,
             lambda0 \in Lambdas, bigrams \in Bigrams :
            model = model_of(L, feats, trans, lambda0, dict, bigrams)
  /\ lastRc = DA_OK
  /\ lastKey = <<>>
  /\ everFailed = FALSE
  /\ text \in Texts

InitDecode ==
  /\ ModelAndText
  /\ ws = [max_n_cp |-> MaxCp, max_word_len |-> MaxWordLen]
  /\ vit = vit_idle
  /\ nb = nb_idle
  /\ smp = smp_idle
  /\ ToolsIdle

\* npycrf_decode(model, text, len, ws, out_b_cp, max_n_cp + 1, ...)
Decode ==
  /\ vit' = npycrf_decode(the_model, text, Len(text), ws, ws.max_n_cp + 1)
  /\ UNCHANGED <<trieVars, toolVars, model, text, ws, nb, smp>>

\* npycrf_decode_nbest(model, text, len, ws, buf, size, nbest, ...)
DecodeNbest ==
  /\ \E nbest \in 1..MaxNbest :
       nb' = npycrf_decode_nbest(the_model, text, Len(text), ws, nbest,
                                 ws.max_n_cp + 1)
  /\ UNCHANGED <<trieVars, toolVars, model, text, ws, vit, smp>>

\* npycrf_decode_sample(model, text, len, ws, buf, size, temperature, seed, ...)
DecodeSample ==
  /\ smp' \in npycrf_decode_sample(the_model, text, Len(text), ws, ws.max_n_cp + 1)
  /\ UNCHANGED <<trieVars, toolVars, model, text, ws, vit, nb>>

NextDecode == Decode \/ DecodeNbest \/ DecodeSample

SpecDecode == InitDecode /\ [][NextDecode]_vars

(***************************************************************************)
(* The claims about the trie.                                              *)
(***************************************************************************)
Prefixes(K) == UNION {{SubSeq(k, 1, n) : n \in 0..Len(k)} : k \in K}
NodeOf(p) == da_walk(da, p, DA_ROOT, 1)
TermOf(p) == da_next(da, NodeOf(p), 0)
Failure(rc) == rc \in {DA_ERR_NOMEM, DA_ERR_FULL}

\* C1: while every insert has returned OK, contains(q) is true exactly for the
\* inserted keys, among all byte strings over the key bytes up to one byte longer
\* than the longest key (so proper prefixes and extensions are rejected).
C1_RoundTrip ==
  ~everFailed => \A q \in Queries : da_trie_contains_bytes(da, q) <=> q \in keys

\* Three keys are in, one of them a proper extension of another key, one with a
\* proper prefix that is no key, and the children of the root have been relocated.
C1_Witness ==
  /\ ~everFailed
  /\ Cardinality(keys) >= 3
  /\ da.base[DA_ROOT] # 1
  /\ \E k \in keys : Len(k) = 2 /\ SubSeq(k, 1, 1) \in keys
  /\ \E k \in keys : Len(k) = 2 /\ SubSeq(k, 1, 1) \notin keys

\* C2: while every insert has returned OK, the trie is the naive child-map trie
\* of the inserted keys: every prefix of a key has its own node, distinct prefixes
\* and terminals have distinct nodes, and a node has a transition under byte c
\* exactly when the naive trie has that child (c = 0: the prefix is itself a key).
C2_NaiveTrie ==
  ~everFailed =>
    LET P == Prefixes(keys) \cup {<<>>}
    IN /\ \A p \in P : NodeOf(p) # 0
       /\ \A p, q \in P : p # q => NodeOf(p) # NodeOf(q)
       /\ \A p \in P, k \in keys : TermOf(k) # NodeOf(p)
       /\ \A k1, k2 \in keys : k1 # k2 => TermOf(k1) # TermOf(k2)
       /\ \A p \in P :
            LET n == NodeOf(p)
            IN \A c \in 0..(DA_ALPHABET_SIZE - 1) :
                 (da_next(da, n, c) # 0)
                   <=> (IF c = 0 THEN p \in keys ELSE Append(p, c) \in P)

\* The storage has grown, the root's children have moved, and a node with two
\* children under it exists.
C2_Witness ==
  /\ ~everFailed
  /\ da.capacity > DA_MIN_CAPACITY
  /\ da.base[DA_ROOT] # 1
  /\ \E k1, k2 \in keys : /\ k1 # k2 /\ Len(k1) = 2 /\ Len(k2) = 2
                           /\ k1[1] = k2[1]

\* C3: the value stored for a key by set_term_value is what get_term_value
\* returns for it, in every later state.
C3_TermValue ==
  \A k \in DOMAIN vals :
     npycrf_da_ro_get_term_value(da, k) = [ok |-> 1, id |-> vals[k]]

\* A key holds a value, its terminal node is no longer where it was when the value
\* was set, and the last operation was on another key.
C3_Witness ==
  \E k \in DOMAIN vals :
     /\ lastKey # k
     /\ lastRc = DA_OK
     /\ da_set_walk(da, k, 1, 1) # setAt[k]

\* C4: once an insertion has failed with NOMEM or FULL, contains still answers
\* true exactly for the keys inserted successfully, also after later operations,
\* and the key whose insertion just failed is not among them.
C4_FailureKeepsKeys ==
  everFailed =>
    /\ \A q \in Queries : da_trie_contains_bytes(da, q) <=> q \in keys
    /\ Failure(lastRc) => lastKey \notin keys

\* The last insertion failed after it had added the node of its first byte, and
\* keys inserted earlier are in the trie.
C4_Witness ==
  /\ Failure(lastRc)
  /\ keys # {}
  /\ Len(lastKey) = 2
  /\ SubSeq(lastKey, 1, 1) \notin Prefixes(keys)
  /\ NodeOf(SubSeq(lastKey, 1, 1)) # 0

\* C5: the decoder's da_next_ro_local and UniLM's unilm_da_next_raw return what
\* da_next returns, for every node cur and byte c of the current arrays.
C5_ReadOnlySameTransition ==
  \A cur \in 0..(da.capacity - 1), c \in 0..(DA_ALPHABET_SIZE - 1) :
     /\ da_next_ro_local(da, cur, c) = da_next(da, cur, c)
     /\ unilm_da_next_raw(da, cur, c) = da_next(da, cur, c)

(***************************************************************************)
(* The claims about the decoders.                                          *)
(***************************************************************************)
\* The number of codepoints of the text (0: empty or not decodable).
TextCps == npycrf_utf8_make_offsets(text, Len(text), ws.max_n_cp + 1).n

\* The boundary schema: from 0 to n_cp, strictly increasing, gaps at most L.
ValidBoundaries(b, n_cp, L) ==
  /\ Len(b) >= 2
  /\ b[1] = 0
  /\ b[Len(b)] = n_cp
  /\ \A i \in 1..(Len(b) - 1) : b[i] < b[i + 1] /\ b[i + 1] - b[i] <= L

\* The states (pos, k) of the lattice of the text, as span indexes.
LatticeStates ==
  UNION {{span_index(pos, k, model.max_word_len) :
            k \in 1..(IF pos <= model.max_word_len THEN pos ELSE model.max_word_len)} :
         pos \in 1..TextCps}

\* C6: when npycrf_decode returns 0, the boundaries it wrote start with 0, end
\* with n_cp, increase strictly and lie at most max_word_len apart.
C6_ViterbiBoundaries ==
  (vit.called /\ vit.rc = 0) =>
     /\ vit.count = Len(vit.b)
     /\ ValidBoundaries(vit.b, TextCps, model.max_word_len)

\* A decode of three codepoints, one of them two bytes long, that returned two
\* words, one of them of two codepoints.
C6_Witness ==
  /\ vit.called /\ vit.rc = 0
  /\ TextCps = 3 /\ \E i \in 1..Len(text) : text[i] > 127
  /\ Len(vit.b) >= 3
  /\ \E i \in 1..(Len(vit.b) - 1) : vit.b[i + 1] - vit.b[i] >= 2

\* C7: npycrf_decode of the empty text returns 0 with boundaries [0, 0] and the
\* score bos_to1.
C7_EmptyInput ==
  (vit.called /\ text = <<>>) =>
     /\ vit.rc = 0
     /\ vit.b = <<0, 0>>
     /\ vit.score = model.crf.bos_to1

\* C8: in every state of the forward scan the back-pointer is a candidate with
\* the best score, and no candidate with a smaller previous word length j has
\* the same score.
C8_TieKeepsSmallerJ ==
  (vit.called /\ vit.rc = 0) =>
     \A x \in LatticeStates :
        LET c == At(vit.cand, x)
            bp == At(vit.bp_prevlen, x)
            J == {j \in 0..model.max_word_len : At(c, j) # NPYCRF_SCORE_NEG_INF}
        IN J # {} =>
             /\ bp \in J
             /\ \A j \in J : At(c, j) <= At(c, bp)
             /\ \A j \in J : At(c, j) = At(c, bp) => bp <= j

\* A scan saw two previous word lengths tie for the best score in one state, and
\* in another state a longer previous word beat a shorter one.
C8_Witness ==
  /\ vit.called /\ vit.rc = 0
  /\ \E x \in LatticeStates :
        LET c == At(vit.cand, x)
            bp == At(vit.bp_prevlen, x)
        IN \E j \in 1..model.max_word_len :
              j > bp /\ bp >= 1 /\ At(c, j) = At(c, bp)
  /\ \E x \in LatticeStates :
        LET c == At(vit.cand, x)
            bp == At(vit.bp_prevlen, x)
        IN \E j \in 1..model.max_word_len :
              j < bp /\ At(c, j) # NPYCRF_SCORE_NEG_INF /\ At(c, j) < At(c, bp)

\* C9: when npycrf_decode returns 0 and npycrf_decode_nbest returns at least one
\* path for the same model and text, the first path and its score are the
\* boundaries and the score of npycrf_decode.
C9_FirstNbestIsViterbi ==
  (vit.called /\ vit.rc = 0 /\ nb.called /\ nb.rc >= 1) =>
     /\ At(nb.b, 0) = vit.b
     /\ At(nb.count, 0) = vit.count
     /\ At(nb.scores, 0) = vit.score

\* Both decoders succeeded, N-best with N > 1, and its second path is another
\* segmentation with the score of the first.
C9_Witness ==
  /\ vit.called /\ vit.rc = 0
  /\ nb.called /\ nb.nbest >= 2 /\ nb.rc >= 2
  /\ At(nb.scores, 1) = At(nb.scores, 0)
  /\ At(nb.b, 1) # At(nb.b, 0)
  /\ Len(vit.b) >= 3

\* C10: when npycrf_decode_sample returns 0, whatever the generator drew, the
\* boundaries start with 0, end with n_cp, increase strictly and lie at most
\* max_word_len apart.
C10_SampleBoundaries ==
  (smp.called /\ smp.rc = 0) =>
     /\ smp.count = Len(smp.b)
     /\ ValidBoundaries(smp.b, TextCps, model.max_word_len)

\* A sample of four codepoints with several words, one of them longer than a
\* codepoint, that is not the segmentation npycrf_decode returned.
C10_Witness ==
  /\ smp.called /\ smp.rc = 0
  /\ vit.called /\ vit.rc = 0 /\ smp.b # vit.b
  /\ TextCps = 4
  /\ Len(smp.b) >= 3
  /\ \E i \in 1..(Len(smp.b) - 1) : smp.b[i + 1] - smp.b[i] >= 2

(***************************************************************************)
(* npycrf_utf8_make_offsets one loop iteration at a time, so that buffers  *)
(* of 64 KiB and more can be followed. The buffer is `reps` copies of a    *)
(* unit; offs = [unit, reps, out_cap, i, n, off, pc, ret]. Of the table    *)
(* out_off the state keeps what its schema speaks of: the number of        *)
(* entries written, the first and the last one, and whether every entry    *)
(* was greater than the one before it.                                     *)
(***************************************************************************)
MaxReps == 3
LongReps == 16384

\* uint16_t
UINT16_MOD == 65536

\* Units of valid UTF-8 with their number of codepoints, and invalid units.
ValidUnits ==
  {<<97>>, <<195, 169>>, <<227, 129, 130>>, <<240, 159, 152, 128>>,
   <<97, 227, 129, 130, 98>>}
InvalidUnits == {<<195>>, <<169>>, <<192, 128>>, <<237, 160, 128>>, <<97, 255>>}
UnitCps(unit) == IF Len(unit) = 5 THEN 3 ELSE 1

\* The arguments utf8 and len of the call.
offs_len(o) == Len(o.unit) * o.reps
offs_utf8(o) == [k \in 1..offs_len(o) |-> o.unit[((k - 1) % Len(o.unit)) + 1]]

\* The pairs (unit, reps) the builder is called on: short buffers of every
\* unit, and one buffer of LongReps four-byte codepoints.
OffsInputs ==
  ((ValidUnits \cup InvalidUnits) \X (0..MaxReps)) \cup {<<<<240, 159, 152, 128>>, LongReps>>}

offs_table_empty == [written |-> 0, first |-> 0, last |-> 0, incr |-> TRUE]

InitOffsets ==
  /\ TrieIdle
  /\ DecodeIdle
  /\ \E in \in OffsInputs :
       \E out_cap \in {in[2] * UnitCps(in[1]) + d : d \in 0..2} :
          offs = [pc |-> "loop", unit |-> in[1], reps |-> in[2], out_cap |-> out_cap,
                  i |-> 0, n |-> 0, off |-> offs_table_empty, ret |-> 0]
  /\ tok = offs_idle
  /\ um = [op |-> "idle"]
  /\ IoIdle

\* out_off[n] = (uint16_t)v, the next entry of the table.
offs_store(tab, v) ==
  [written |-> tab.written + 1,
   first   |-> IF tab.written = 0 THEN v % UINT16_MOD ELSE tab.first,
   last    |-> v % UINT16_MOD,
   incr    |-> tab.incr /\ (tab.written = 0 \/ v % UINT16_MOD > tab.last)]

\* One iteration of `while (i < len)`.
OffsetsStep ==
  /\ offs.pc = "loop"
  /\ offs.i < offs_len(offs)
  /\ IF offs.n + 1 >= offs.out_cap
     THEN offs' = [offs EXCEPT !.pc = "done", !.ret = 0]
     ELSE \E d \in {utf8_decode1(offs_utf8(offs), offs_len(offs), offs.i)} :
            offs' = [offs EXCEPT !.off = offs_store(@, offs.i),
                                 !.n = @ + 1,
                                 !.i = d.io,
                                 !.pc = IF d.ok = 0 THEN "done" ELSE "loop",
                                 !.ret = 0]
  /\ UNCHANGED <<trieVars, decodeVars, tok, um, ioVars>>

\* The exit of the loop: the terminating offset.
OffsetsEnd ==
  /\ offs.pc = "loop"
  /\ offs.i >= offs_len(offs)
  /\ IF offs.n >= offs.out_cap
     THEN offs' = [offs EXCEPT !.pc = "done", !.ret = 0]
     ELSE offs' = [offs EXCEPT !.off = offs_store(@, offs_len(offs)),
                               !.pc = "done", !.ret = offs.n]
  /\ UNCHANGED <<trieVars, decodeVars, tok, um, ioVars>>

NextOffsets == OffsetsStep \/ OffsetsEnd

SpecOffsets == InitOffsets /\ [][NextOffsets]_vars

\* C11: for a valid UTF-8 buffer of L bytes and M codepoints whose M + 1
\* offsets fit out_cap, the builder returns M and the table starts with 0,
\* ends with L and is strictly increasing.
C11_OffsetTable ==
  (/\ offs.pc = "done"
   /\ offs.unit \in ValidUnits
   /\ offs.reps * UnitCps(offs.unit) + 1 <= offs.out_cap)
  => LET M == offs.reps * UnitCps(offs.unit)
         L == offs_len(offs)
     IN /\ offs.ret = M
        /\ offs.off.written = M + 1
        /\ offs.off.first = 0
        /\ offs.off.last = L
        /\ offs.off.incr


(***************************************************************************)
(* The tokenizer's loop (tokenize_one of mmjp_tokenize.c, the 1-best       *)
(* mode): a workspace of max_n_cp codepoints is initialised, the text is   *)
(* decoded, and on the decoder's code -3 max_n_cp is doubled and the text  *)
(* decoded again, until max_n_cp passes TOK_MAX_N_CP.                      *)
(* tok = [pc, max_n_cp, ret, grown], grown the number of doublings.        *)
(***************************************************************************)
TOK_MAX_N_CP == 65530

\* --max_n_cp of the command line: small values, and the default.
TokInitCaps == {1, 2, 1024}

InitTokenize ==
  /\ ModelAndText
  /\ ws = [max_n_cp |-> 0, max_word_len |-> 0]
  /\ vit = vit_idle
  /\ nb = nb_idle
  /\ smp = smp_idle
  /\ offs = offs_idle
  /\ um = [op |-> "idle"]
  /\ IoIdle
  /\ \E c \in TokInitCaps : tok = [pc |-> "loop", max_n_cp |-> c, ret |-> 0, grown |-> 0]

\* One iteration of for (;;) in tokenize_one.
tokenize_iter(t, rc) ==
  IF rc = -3
  THEN IF t.max_n_cp * 2 > TOK_MAX_N_CP
       THEN [t EXCEPT !.max_n_cp = @ * 2, !.pc = "done", !.ret = 0]
       ELSE [t EXCEPT !.max_n_cp = @ * 2, !.grown = @ + 1]
  ELSE IF rc # 0 THEN [t EXCEPT !.pc = "done", !.ret = 0]
  ELSE [t EXCEPT !.pc = "done", !.ret = 1]

TokenizeOne ==
  /\ tok.pc = "loop"
  /\ \E w \in {[max_n_cp |-> tok.max_n_cp, max_word_len |-> model.max_word_len]} :
       \E r \in {npycrf_decode(the_model, text, Len(text), w, tok.max_n_cp + 1)} :
          /\ ws' = w
          /\ vit' = r
          /\ tok' = tokenize_iter(tok, r.rc)
  /\ UNCHANGED <<trieVars, model, text, nb, smp, offs, um, ioVars>>

NextTokenize == TokenizeOne

SpecTokenize == InitTokenize /\ [][NextTokenize]_vars

\* The number of codepoints of a buffer of valid UTF-8, 0 for any other.
utf8_cp_count(utf8) == npycrf_utf8_make_offsets(utf8, Len(utf8), Len(utf8) + 2).n

\* C12: the code the tokenizer doubles max_n_cp on is reported by the
\* decoder only for a too-small workspace, never for invalid UTF-8: whenever
\* npycrf_decode returned -3 on a non-empty text, the text is valid UTF-8 of
\* more codepoints than the workspace's max_n_cp, so every retry is one a
\* larger workspace can help.
C12_OverflowCodeDistinct ==
  (vit.called /\ vit.rc = -3 /\ Len(text) > 0)
     => utf8_cp_count(text) > ws.max_n_cp




(***************************************************************************)
(* unilm_mdl.c: the unigram model (piece table, logp, trie) and the MDL    *)
(* pruner. A model is [pieces, logp, vocab_size, vocab_cap, strbuf_len,    *)
(* strbuf_cap, trie]; pieces and logp are the arrays of vocab_cap slots, a *)
(* piece is [bytes, len_cp, flags], bytes standing for the str_off and len *)
(* of its string in the pool, which is never moved. The values of logp,    *)
(* the counts and the lambdas are integers, on which the floating-point    *)
(* arithmetic of the pruner is exact.                                      *)
(***************************************************************************)
UNILM_OK == 0
UNILM_ERR_BADARG == -1
UNILM_ERR_NOMEM == -2
UNILM_ERR_FULL == -3
UNILM_ERR_RANGE == -6
UNILM_ERR_INTERNAL == -7
UNILM_PIECE_MANDATORY == 1

unilm_utf8_next(s, len, pos) ==
  IF pos >= len THEN len
  ELSE LET b == s[pos + 1]
       IN IF b < 128 THEN pos + 1
          ELSE IF b \div 32 = 6 THEN (IF pos + 2 > len THEN len ELSE pos + 2)
          ELSE IF b \div 16 = 14 THEN (IF pos + 3 > len THEN len ELSE pos + 3)
          ELSE IF b \div 8 = 30 THEN (IF pos + 4 > len THEN len ELSE pos + 4)
          ELSE pos + 1

RECURSIVE unilm_utf8_count_from(_, _, _, _)
unilm_utf8_count_from(s, len, pos, n) ==
  IF pos >= len THEN n
  ELSE unilm_utf8_count_from(s, len, unilm_utf8_next(s, len, pos), n + 1)

unilm_utf8_count_codepoints(s, len) == unilm_utf8_count_from(s, len, 0, 0)

RECURSIVE unilm_walk(_, _, _, _)
unilm_walk(d, bytes, cur, i) ==
  IF i > Len(bytes) THEN cur
  ELSE Only({ IF nx = 0 THEN 0 ELSE unilm_walk(d, bytes, nx, i + 1)
              : nx \in {unilm_da_next_raw(d, cur, bytes[i])} })

unilm_da_term_id(d, node) ==
  Only({ IF term = 0 THEN -1
         ELSE IF d.base[term] >= 0 THEN -1
         ELSE -d.base[term] - 1
         : term \in {unilm_da_next_raw(d, node, 0)} })

\* [rc, da]
unilm_da_set_term_id(d, bytes, id) ==
  IF Len(bytes) = 0 THEN [rc |-> UNILM_ERR_BADARG, da |-> d]
  ELSE Only({
     IF cur = 0 THEN [rc |-> UNILM_ERR_INTERNAL, da |-> d]
     ELSE Only({
             IF term = 0 THEN [rc |-> UNILM_ERR_INTERNAL, da |-> d]
             ELSE [rc |-> UNILM_OK,
                   da |-> [d EXCEPT !.base = [@ EXCEPT ![term] = -(id + 1)]]]
             : term \in {unilm_da_next_raw(d, cur, 0)} })
     : cur \in {unilm_walk(d, bytes, DA_ROOT, 1)} })

\* A zeroed slot of the piece array.
piece_zero == [bytes |-> <<>>, len_cp |-> 0, flags |-> 0]

\* unilm_model_init_static / _dynamic followed by unilm_model_clear.
unilm_model_init(vocab_cap, strbuf_cap, da_cap, dynamic) ==
  [pieces |-> Fill(vocab_cap, piece_zero), logp |-> Fill(vocab_cap, 0),
   vocab_size |-> 0, vocab_cap |-> vocab_cap,
   strbuf_len |-> 0, strbuf_cap |-> strbuf_cap,
   trie |-> da_trie_init(da_cap, dynamic)]

unilm_model_find_id(m, bytes) ==
  IF Len(bytes) = 0 THEN -1
  ELSE Only({ IF cur = 0 THEN -1 ELSE unilm_da_term_id(m.trie, cur)
              : cur \in {unilm_walk(m.trie, bytes, DA_ROOT, 1)} })

\* a | b on the flag bit of a piece.
flags_or(a, b) == IF a = UNILM_PIECE_MANDATORY \/ b = UNILM_PIECE_MANDATORY
                  THEN UNILM_PIECE_MANDATORY ELSE 0

\* unilm_model_add_piece once the key is known to be new and to fit: m1 has
\* the string and the piece slot written.  [ret, m]
add_piece_new(m1, bytes, id, fuel) ==
  Only({
     IF a.rc # DA_OK THEN [ret |-> -1, m |-> [m1 EXCEPT !.trie = a.da]]
     ELSE Only({
             IF t.rc # UNILM_OK THEN [ret |-> -1, m |-> [m1 EXCEPT !.trie = t.da]]
             ELSE [ret |-> id,
                   m |-> [m1 EXCEPT !.trie = t.da,
                                    !.logp = Put(@, id, 0),
                                    !.vocab_size = @ + 1]]
             : t \in {unilm_da_set_term_id(a.da, bytes, id)} })
     : a \in {da_trie_add_bytes(m1.trie, bytes, fuel)} })

\* [ret, m]; fuel as in da_reserve.
unilm_model_add_piece(m, bytes, flags, fuel) ==
  IF Len(bytes) = 0 THEN [ret |-> -1, m |-> m]
  ELSE Only({
     IF existing >= 0
     THEN [ret |-> existing,
           m |-> [m EXCEPT !.pieces =
                     Put(@, existing, [At(@, existing) EXCEPT !.flags = flags_or(@, flags)])]]
     ELSE IF m.vocab_size >= m.vocab_cap THEN [ret |-> -1, m |-> m]
     ELSE IF m.strbuf_len + Len(bytes) > m.strbuf_cap THEN [ret |-> -1, m |-> m]
     ELSE add_piece_new(
             [m EXCEPT !.strbuf_len = @ + Len(bytes),
                       !.pieces = Put(@, m.vocab_size,
                                      [bytes  |-> bytes,
                                       len_cp |-> unilm_utf8_count_codepoints(bytes, Len(bytes)),
                                       flags  |-> flags])],
             bytes, m.vocab_size, fuel)
     : existing \in {unilm_model_find_id(m, bytes)} })

unilm_model_set_logp(m, id, logp) ==
  IF id >= m.vocab_size THEN [rc |-> UNILM_ERR_BADARG, m |-> m]
  ELSE [rc |-> UNILM_OK, m |-> [m EXCEPT !.logp = Put(@, id, logp)]]

\* memcmp on the common prefix, then the lengths: < 0, 0 or > 0.
RECURSIVE lex_cmp_from(_, _, _)
lex_cmp_from(a, b, i) ==
  IF i > Len(a) \/ i > Len(b) THEN Len(a) - Len(b)
  ELSE IF a[i] # b[i] THEN a[i] - b[i]
  ELSE lex_cmp_from(a, b, i + 1)

cmp_piece_id_lex_bytes(m, ia, ib) ==
  Only({ IF c # 0 THEN c ELSE ia - ib
         : c \in {lex_cmp_from(At(m.pieces, ia).bytes, At(m.pieces, ib).bytes, 1)} })

\* The ids 0..V-1 as qsort leaves them: the order is total, so the result is
\* the one sequence in which every id comes after the ids smaller than it.
sorted_piece_ids(m) ==
  [k \in 1..m.vocab_size |->
     CHOOSE id \in 0..(m.vocab_size - 1) :
        Cardinality({o \in 0..(m.vocab_size - 1) :
                       cmp_piece_id_lex_bytes(m, o, id) < 0}) = k - 1]

\* The insertion loop of unilm_model_rebuild_trie_sorted from ids[idx] on.
RECURSIVE rebuild_insert(_, _, _, _, _)
rebuild_insert(m, d, ids, idx, fuel) ==
  IF idx > Len(ids) THEN [rc |-> UNILM_OK, da |-> d]
  ELSE IF Len(At(m.pieces, ids[idx]).bytes) = 0
  THEN rebuild_insert(m, d, ids, idx + 1, fuel)
  ELSE Only({
     IF a.rc # DA_OK THEN [rc |-> UNILM_ERR_INTERNAL, da |-> a.da]
     ELSE Only({
             IF t.rc # UNILM_OK THEN [rc |-> UNILM_ERR_INTERNAL, da |-> t.da]
             ELSE rebuild_insert(m, t.da, ids, idx + 1, a.fuel)
             : t \in {unilm_da_set_term_id(a.da, At(m.pieces, ids[idx]).bytes, ids[idx])} })
     : a \in {da_trie_add_bytes(d, At(m.pieces, ids[idx]).bytes, fuel)} })

\* [rc, m]; ids_ok: malloc of the id array succeeded.
unilm_model_rebuild_trie_sorted(m, ids_ok, fuel) ==
  IF m.vocab_size = 0
  THEN [rc |-> UNILM_OK, m |-> [m EXCEPT !.trie = da_trie_init(@.capacity, @.dynamic)]]
  ELSE IF ~ids_ok THEN [rc |-> UNILM_ERR_NOMEM, m |-> m]
  ELSE Only({ [rc |-> r.rc, m |-> [m EXCEPT !.trie = r.da]]
              : r \in {rebuild_insert(m, da_trie_init(m.trie.capacity, m.trie.dynamic),
                                      sorted_piece_ids(m), 1, fuel)} })


\* A pruner that retains the flagged pieces only.
unilm_piece_is_mandatory_flag_only(m, id) ==
  At(m.pieces, id).flags = UNILM_PIECE_MANDATORY

unilm_piece_is_mandatory(m, id) ==
  At(m.pieces, id).flags = UNILM_PIECE_MANDATORY \/ At(m.pieces, id).len_cp <= 1

\* The sum of -logp over the codepoints of s from byte pos on: [finite, cost],
\* finite = FALSE standing for INFINITY.
RECURSIVE piece_char_cost_from(_, _, _, _)
piece_char_cost_from(m, s, pos, cost) ==
  IF pos >= Len(s) THEN [finite |-> TRUE, cost |-> cost]
  ELSE Only({ Only({
          IF cid < 0 THEN [finite |-> FALSE, cost |-> 0]
          ELSE piece_char_cost_from(m, s, next, cost - At(m.logp, cid))
          : cid \in {unilm_model_find_id(m, SubSeq(s, pos + 1, next))} })
          : next \in {unilm_utf8_next(s, Len(s), pos)} })

unilm_piece_char_cost(m, id) ==
  IF Len(At(m.pieces, id).bytes) = 0 THEN [finite |-> FALSE, cost |-> 0]
  ELSE piece_char_cost_from(m, At(m.pieces, id).bytes, 0, 0)

\* The min-heap of unilm_prune_mdl: a sequence of [idx, score], heap_n its length.
heap_swap(h, i, j) == [h EXCEPT ![i + 1] = h[j + 1], ![j + 1] = h[i + 1]]

\* A heap whose new entry stays at the bottom.
heap_sift_up_none(h, i) == h

RECURSIVE heap_sift_up(_, _)
heap_sift_up(h, i) ==
  IF i = 0 THEN h
  ELSE Only({ IF At(h, p).score <= At(h, i).score THEN h
              ELSE heap_sift_up(heap_swap(h, p, i), p)
              : p \in {(i - 1) \div 2} })

RECURSIVE heap_sift_down(_, _, _)
heap_sift_down(h, n, i) ==
  Only({ Only({
     IF s = i THEN h ELSE heap_sift_down(heap_swap(h, s, i), n, s)
     : s \in {IF 2 * i + 2 < n /\ At(h, 2 * i + 2).score < At(h, sl).score
              THEN 2 * i + 2 ELSE sl} })
     : sl \in {IF 2 * i + 1 < n /\ At(h, 2 * i + 1).score < At(h, i).score
               THEN 2 * i + 1 ELSE i} })

\* The score of piece i in unilm_prune_mdl: [finite, score].
prune_score(m, cfg, counts, i) ==
  Only({
     IF ~alt.finite THEN [finite |-> FALSE, score |-> 0]
     ELSE [finite |-> TRUE,
           score |-> (alt.cost + At(m.logp, i)) * (IF At(counts, i) > 0 THEN At(counts, i) ELSE 0)
                     - (cfg.mdl_lambda0 + cfg.mdl_lambda_len * At(m.pieces, i).len_cp)]
     : alt \in {unilm_piece_char_cost(m, i)} })

\* A scoring loop that also keeps the pieces of score 0 when no target is set.
prune_take_nonneg(cfg, K, i, sc, st) ==
  IF ~sc.finite THEN st
  ELSE IF cfg.target_vocab_size = 0
  THEN (IF sc.score >= 0 THEN [st EXCEPT !.keep = Put(@, i, 1)] ELSE st)
  ELSE IF K = 0 THEN st
  ELSE IF Len(st.heap) < K
  THEN [st EXCEPT !.heap = heap_sift_up(Append(@, [idx |-> i, score |-> sc.score]), Len(@))]
  ELSE IF sc.score > At(st.heap, 0).score
  THEN [st EXCEPT !.heap = heap_sift_down(Put(@, 0, [idx |-> i, score |-> sc.score]), Len(@), 0)]
  ELSE st

\* What the scoring loop does with a scored piece; st = [keep, heap].
prune_take(cfg, K, i, sc, st) ==
  IF ~sc.finite THEN st
  ELSE IF cfg.target_vocab_size = 0
  THEN (IF sc.score > 0 THEN [st EXCEPT !.keep = Put(@, i, 1)] ELSE st)
  ELSE IF K = 0 THEN st
  ELSE IF Len(st.heap) < K
  THEN [st EXCEPT !.heap = heap_sift_up(Append(@, [idx |-> i, score |-> sc.score]), Len(@))]
  ELSE IF sc.score > At(st.heap, 0).score
  THEN [st EXCEPT !.heap = heap_sift_down(Put(@, 0, [idx |-> i, score |-> sc.score]), Len(@), 0)]
  ELSE st

\* The scoring loop from piece i on.
RECURSIVE prune_scan(_, _, _, _, _, _)
prune_scan(m, cfg, counts, K, i, st) ==
  IF i >= m.vocab_size THEN st
  ELSE IF At(st.keep, i) = 1 THEN prune_scan(m, cfg, counts, K, i + 1, st)
  ELSE prune_scan(m, cfg, counts, K, i + 1,
                  prune_take(cfg, K, i, prune_score(m, cfg, counts, i), st))

\* keep[heap_idx[j]] = 1 for the entries of the heap from j on.
RECURSIVE prune_keep_heap(_, _, _)
prune_keep_heap(keep, heap, j) ==
  IF j > Len(heap) THEN keep
  ELSE prune_keep_heap(Put(keep, heap[j].idx, 1), heap, j + 1)

\* The in-place compaction of an array: kept is the increasing sequence of the
\* kept ids; the slots from newV on keep what they held.
prune_compact(a, kept) ==
  [j \in 1..Len(a) |-> IF j <= Len(kept) THEN At(a, kept[j]) ELSE a[j]]

\* The re-insertion loop from id on: [rc, da].
RECURSIVE prune_reinsert(_, _, _, _, _)
prune_reinsert(m, d, id, newV, fuel) ==
  IF id >= newV THEN [rc |-> UNILM_OK, da |-> d]
  ELSE IF Len(At(m.pieces, id).bytes) = 0 THEN [rc |-> UNILM_ERR_INTERNAL, da |-> d]
  ELSE Only({
     IF a.rc # DA_OK THEN [rc |-> UNILM_ERR_FULL, da |-> a.da]
     ELSE Only({
             IF t.rc # UNILM_OK THEN [rc |-> UNILM_ERR_INTERNAL, da |-> t.da]
             ELSE prune_reinsert(m, t.da, id + 1, newV, a.fuel)
             : t \in {unilm_da_set_term_id(a.da, At(m.pieces, id).bytes, id)} })
     : a \in {da_trie_add_bytes(d, At(m.pieces, id).bytes, fuel)} })

\* unilm_model_normalize replaces every logp[i] by the log of the floored and
\* renormalised probability, that is by norm[logp[i]] for one non-decreasing
\* map norm, here an argument.
unilm_model_normalize(m, norm) ==
  IF m.vocab_size = 0 THEN m
  ELSE [m EXCEPT !.logp = [j \in 1..Len(@) |-> IF j <= m.vocab_size THEN norm[@[j]] ELSE @[j]]]

\* unilm_prune_mdl from the compaction on; keep is final, m1 the compacted model.
prune_rebuild(m1, keep, newV, fuel, norm) ==
  Only({
     IF r.rc # UNILM_OK THEN [rc |-> r.rc, m |-> [m1 EXCEPT !.trie = r.da], keep |-> keep]
     ELSE [rc |-> newV,
           m |-> unilm_model_normalize([m1 EXCEPT !.trie = r.da, !.vocab_size = newV], norm),
           keep |-> keep]
     : r \in {prune_reinsert(m1, da_trie_init(m1.trie.capacity, m1.trie.dynamic),
                             0, newV, fuel)} })

prune_compacted(m, keep, fuel, norm) ==
  Only({ prune_rebuild([m EXCEPT !.pieces = prune_compact(@, kept),
                                 !.logp = prune_compact(@, kept)],
                       keep, Len(kept), fuel, norm)
         : kept \in {SortedSeq({i \in 0..(m.vocab_size - 1) : At(keep, i) = 1})} })

\* unilm_prune_mdl once the mandatory pieces are marked in keep0.
prune_marked(m, cfg, wk, counts, fuel, norm, keep0, mandatory) ==
  IF cfg.target_vocab_size = 0 /\ ~(cfg.mdl_lambda0 > 0 \/ cfg.mdl_lambda_len > 0)
  THEN [rc |-> m.vocab_size, m |-> m, keep |-> keep0]
  ELSE Only({
     IF cfg.target_vocab_size > 0 /\ K > wk.heap_cap
     THEN [rc |-> UNILM_ERR_RANGE, m |-> m, keep |-> keep0]
     ELSE Only({ prune_compacted(m, prune_keep_heap(st.keep, st.heap, 1), fuel, norm)
                 : st \in {prune_scan(m, cfg, counts, K, 0, [keep |-> keep0, heap |-> <<>>])} })
     : K \in {IF cfg.target_vocab_size <= mandatory THEN 0
              ELSE cfg.target_vocab_size - mandatory} })

\* [rc, m, keep], keep the array wk->keep as the call leaves it.
unilm_prune_mdl(m, cfg, wk, counts, fuel, norm) ==
  IF m.vocab_size = 0 THEN [rc |-> UNILM_ERR_BADARG, m |-> m, keep |-> <<>>]
  ELSE IF wk.keep_cap < m.vocab_size THEN [rc |-> UNILM_ERR_RANGE, m |-> m, keep |-> <<>>]
  ELSE Only({ prune_marked(m, cfg, wk, counts, fuel, norm, keep0,
                           Cardinality({i \in 1..Len(keep0) : keep0[i] = 1}))
              : keep0 \in {[i \in 1..m.vocab_size |->
                              IF unilm_piece_is_mandatory(m, i - 1) THEN 1 ELSE 0]} })


(***************************************************************************)
(* The calls on a unigram model: um = [m, wk, op, rc, ok, nops, nprunes,   *)
(* last], op and rc the last call and what it returned, ok whether every   *)
(* call so far succeeded, and last, when the last call was unilm_prune_mdl,*)
(* its arguments cfg and counts, the model pre it was called on and the    *)
(* array keep it left.                                                     *)
(***************************************************************************)
UmVocabCap == 3
UmMaxOps == 4
MaxPrunes == 1
MaxCount == 1
LogpDepth == 1
MinLogp == 0 - LogpDepth

\* The pieces added one by one: ASCII bytes, one codepoint each.
UmPieceStrs == {<<1>>, <<14>>, <<1, 1>>, <<14, 1>>}

\* The vocabularies pruning is called on with every logp, count and
\* configuration: four pieces, the single codepoint added first, the others
\* in any order, the second piece flagged or none.
PrunePieceSets ==
  {{<<1>>, <<1, 1>>, <<1, 1, 1>>, <<1, 1, 1, 1>>},
   {<<1>>, <<1, 1>>, <<1, 1, 1>>, <<14, 1>>}}

LogpVals == MinLogp..0

\* Non-decreasing maps on LogpVals: a shift by d, held inside LogpVals.
NormMaps ==
  {[l \in LogpVals |-> IF l - d < MinLogp THEN MinLogp ELSE l - d] : d \in {0, 1}}

\* The configurations pruning is called with on a model of vocab_cap slots.
PruneConfigs(vocab_cap) ==
  {c \in [mdl_lambda0 : {0, 1}, mdl_lambda_len : {0, 1},
          target_vocab_size : 0..(vocab_cap - 1)] :
     c.mdl_lambda0 = 0 \/ c.mdl_lambda_len = 0}

prune_none == [cfg |-> <<>>, counts |-> <<>>, keep |-> <<>>, pre |-> <<>>]

\* A model of vocab_cap slots on which no call was made yet.
um_init(vocab_cap, dynamic, heap_cap) ==
  [m |-> unilm_model_init(vocab_cap, 4 * vocab_cap, DA_MIN_CAPACITY, dynamic),
   wk |-> [keep_cap |-> vocab_cap, heap_cap |-> heap_cap],
   op |-> "init", rc |-> UNILM_OK, ok |-> TRUE, nops |-> 0, nprunes |-> 0,
   last |-> prune_none]

InitUnilm ==
  /\ TrieIdle
  /\ DecodeIdle
  /\ offs = offs_idle
  /\ tok = offs_idle
  /\ IoIdle
  /\ \E dynamic \in BOOLEAN : um = um_init(UmVocabCap, dynamic, 1)

\* The model after the pieces of list were added, piece f with the flag.
RECURSIVE add_pieces(_, _, _, _)
add_pieces(m, list, f, i) ==
  IF i > Len(list) THEN m
  ELSE add_pieces(unilm_model_add_piece(m, list[i],
                                        IF i = f THEN UNILM_PIECE_MANDATORY ELSE 0,
                                        MaxAllocs).m,
                  list, f, i + 1)

InitPrune ==
  /\ TrieIdle
  /\ DecodeIdle
  /\ offs = offs_idle
  /\ tok = offs_idle
  /\ IoIdle
  /\ \E S \in PrunePieceSets, f \in {0, 2} :
       \E list \in {l \in [1..Cardinality(S) -> S] : SeqRange(l) = S /\ l[1] = <<1>>} :
          um = [um_init(Len(list), TRUE, Len(list))
                  EXCEPT !.m = add_pieces(@, list, f, 1)]

UnilmAddPiece ==
  /\ um.nops < UmMaxOps
  /\ \E bytes \in UmPieceStrs, flags \in {0, UNILM_PIECE_MANDATORY}, fuel \in 0..MaxAllocs :
       \E r \in {unilm_model_add_piece(um.m, bytes, flags, fuel)} :
          um' = [um EXCEPT !.m = r.m, !.op = "add_piece", !.rc = r.ret,
                           !.ok = @ /\ r.ret >= 0, !.nops = @ + 1,
                           !.last = prune_none]
  /\ UNCHANGED <<trieVars, decodeVars, offs, tok, ioVars>>

UnilmSetLogp ==
  /\ um.nprunes < MaxPrunes
  /\ \E id \in 0..(um.m.vocab_size - 1), logp \in LogpVals :
       \E r \in {unilm_model_set_logp(um.m, id, logp)} :
          um' = [um EXCEPT !.m = r.m, !.op = "set_logp", !.rc = r.rc]
  /\ UNCHANGED <<trieVars, decodeVars, offs, tok, ioVars>>

UnilmRebuildTrie ==
  /\ um.nops < UmMaxOps
  /\ \E ids_ok \in BOOLEAN, fuel \in 0..MaxAllocs :
       \E r \in {unilm_model_rebuild_trie_sorted(um.m, ids_ok, fuel)} :
          um' = [um EXCEPT !.m = r.m, !.op = "rebuild_trie_sorted", !.rc = r.rc,
                           !.ok = @ /\ r.rc = UNILM_OK, !.nops = @ + 1,
                           !.last = prune_none]
  /\ UNCHANGED <<trieVars, decodeVars, offs, tok, ioVars>>

UnilmPrune ==
  /\ um.nops < UmMaxOps
  /\ um.nprunes < MaxPrunes
  /\ \E cfg \in PruneConfigs(um.m.vocab_cap),
        counts \in [1..um.m.vocab_size -> 0..MaxCount],
        norm \in NormMaps, fuel \in 0..MaxAllocs :
       \E r \in {unilm_prune_mdl(um.m, cfg, um.wk, counts, fuel, norm)} :
          um' = [um EXCEPT !.m = r.m, !.op = "prune", !.rc = r.rc,
                           !.ok = @ /\ r.rc >= 0, !.nops = @ + 1, !.nprunes = @ + 1,
                           !.last = [cfg |-> cfg, counts |-> counts, keep |-> r.keep,
                                     pre |-> um.m]]
  /\ UNCHANGED <<trieVars, decodeVars, offs, tok, ioVars>>

NextUnilm == UnilmAddPiece \/ UnilmRebuildTrie \/ UnilmPrune

SpecUnilm == InitUnilm /\ [][NextUnilm]_vars

NextPrune == UnilmSetLogp \/ UnilmPrune

SpecPrune == InitPrune /\ [][NextPrune]_vars


(***************************************************************************)
(* The claims about the unigram model and the pruner.                      *)
(***************************************************************************)
\* The byte strings find_id is asked for: the bytes of the pieces and NUL.
QueryStrs == SeqsUpTo({0, 1, 14}, 3) \ {<<>>}

\* The current pieces, as the set of their byte strings.
PieceSet(m) == {At(m.pieces, i).bytes : i \in 0..(m.vocab_size - 1)}

\* C13: after successful calls of add_piece, prune and rebuild_trie_sorted,
\* find_id on the bytes of piece i returns i for every i < vocab_size, and
\* returns no id for every byte string that is not a current piece.
C13_FindIdExact ==
  um.ok =>
    /\ \A i \in 0..(um.m.vocab_size - 1) :
          unilm_model_find_id(um.m, At(um.m.pieces, i).bytes) = i
    /\ \A q \in QueryStrs \ PieceSet(um.m) : unilm_model_find_id(um.m, q) = -1


\* The last call was unilm_prune_mdl, on a model of V pieces.
Pruned == um.op = "prune"
PrunedOk == Pruned /\ um.rc >= 0

\* The codepoints of a byte string, as byte strings.
RECURSIVE CharsFrom(_, _)
CharsFrom(s, pos) ==
  IF pos >= Len(s) THEN <<>>
  ELSE <<SubSeq(s, pos + 1, unilm_utf8_next(s, Len(s), pos))>>
       \o CharsFrom(s, unilm_utf8_next(s, Len(s), pos))

\* Piece i of the model pruning was called on: what the spec calls mandatory,
\* and whether it is a piece of the model pruning left.
MustKeep(i) ==
  \/ At(um.last.pre.pieces, i).flags = UNILM_PIECE_MANDATORY
  \/ Len(CharsFrom(At(um.last.pre.pieces, i).bytes, 0)) = 1

Kept(i) ==
  \E j \in 0..(um.m.vocab_size - 1) : At(um.m.pieces, j) = At(um.last.pre.pieces, i)

PrePieces == 0..(um.last.pre.vocab_size - 1)

\* C14: whatever the counts, logp, lambdas and target size, and whatever it
\* returns, unilm_prune_mdl leaves every piece that carries the MANDATORY flag
\* or has codepoint length 1 in the vocabulary, with its flags.
C14_MandatoryKept ==
  Pruned => \A i \in PrePieces : MustKeep(i) => Kept(i)

\* A prune that removed pieces under a target size smaller than the number of
\* mandatory pieces, among them a flagged piece of two and more codepoints and
\* an unflagged single codepoint.
C14_Witness ==
  /\ PrunedOk
  /\ um.rc < um.last.pre.vocab_size
  /\ um.last.cfg.target_vocab_size > 0
  /\ um.last.cfg.target_vocab_size < Cardinality({i \in PrePieces : MustKeep(i)})
  /\ \E i \in PrePieces : /\ At(um.last.pre.pieces, i).flags = UNILM_PIECE_MANDATORY
                          /\ At(um.last.pre.pieces, i).len_cp >= 2
  /\ \E i \in PrePieces : /\ At(um.last.pre.pieces, i).flags = 0
                          /\ At(um.last.pre.pieces, i).len_cp = 1


\* The id of the piece of the old vocabulary with these bytes, -1 if there is none.
PreIdOf(bytes) ==
  IF \E j \in PrePieces : At(um.last.pre.pieces, j).bytes = bytes
  THEN CHOOSE j \in PrePieces : At(um.last.pre.pieces, j).bytes = bytes
  ELSE -1

RECURSIVE SumOf(_)
SumOf(s) == IF s = <<>> THEN 0 ELSE Head(s) + SumOf(Tail(s))

PreChars(i) == CharsFrom(At(um.last.pre.pieces, i).bytes, 0)

\* alt(p) is defined when every codepoint of p is a piece.
AltDefined(i) == \A j \in 1..Len(PreChars(i)) : PreIdOf(PreChars(i)[j]) >= 0

Alt(i) == SumOf([j \in 1..Len(PreChars(i)) |-> 0 - At(um.last.pre.logp, PreIdOf(PreChars(i)[j]))])

\* s(p) = (alt(p) + logp[p]) * count[p] - (lambda0 + lambda_len * len_cp(p))
Score(i) ==
  (Alt(i) + At(um.last.pre.logp, i)) * At(um.last.counts, i)
    - (um.last.cfg.mdl_lambda0 + um.last.cfg.mdl_lambda_len * Len(PreChars(i)))

NoTarget == PrunedOk /\ um.last.cfg.target_vocab_size = 0

LambdaSet == um.last.cfg.mdl_lambda0 > 0 \/ um.last.cfg.mdl_lambda_len > 0

WithTarget == PrunedOk /\ um.last.cfg.target_vocab_size > 0

Mandatory == {i \in PrePieces : MustKeep(i)}

\* The pieces pruning can score: not mandatory, every codepoint a piece.
Scorable == {i \in PrePieces \ Mandatory : AltDefined(i)}

TopK ==
  IF um.last.cfg.target_vocab_size <= Cardinality(Mandatory) THEN 0
  ELSE um.last.cfg.target_vocab_size - Cardinality(Mandatory)

\* C16: with a target size, a successful prune keeps every mandatory piece and
\* the K = target_vocab_size - |mandatory| highest-scoring other pieces (none
\* when the target is at most |mandatory|): at most K non-mandatory pieces are
\* kept, as many as K when that many can be scored, and no removed
\* non-mandatory piece has a score strictly greater than a kept one.
C16_KeepsTopK ==
  WithTarget =>
    /\ \A i \in Mandatory : Kept(i)
    /\ {i \in PrePieces \ Mandatory : Kept(i)} \subseteq Scorable
    /\ Cardinality({i \in Scorable : Kept(i)}) = MinOf({TopK, Cardinality(Scorable)})
    /\ \A r \in Scorable : \A k \in Scorable :
          (~Kept(r) /\ Kept(k)) => ~(Score(r) > Score(k))

\* A prune to a target that kept two non-mandatory pieces and removed a third
\* of strictly smaller score than both, the removed one not being the last of
\* the vocabulary.
C16_Witness ==
  /\ WithTarget /\ TopK = 2
  /\ \E r \in Scorable :
        /\ ~Kept(r)
        /\ \E k \in Scorable : k > r /\ Kept(k)
        /\ \A k \in Scorable : Kept(k) => Score(k) > Score(r)
  /\ Cardinality({i \in Scorable : Kept(i)}) = 2


\* The call of unilm_prune_mdl got past its argument checks, cleared the trie
\* and then failed: the trie is no longer the one the call was made on.
PruneFailedRebuilding ==
  Pruned /\ um.rc < 0 /\ um.m.trie # um.last.pre.trie

\* C17: a prune that fails while it puts the kept keys back into the cleared
\* trie returns UNILM_ERR_INTERNAL.
C17_ReinsertFailureInternal ==
  PruneFailedRebuilding => um.rc = UNILM_ERR_INTERNAL


(***************************************************************************)
(* UniLM training: unilm_em_e_step, unilm_em_m_step and the two loops that *)
(* drive them, unilm_train_em_mdl and the EM loop of mmjp_train.           *)
(* Expected counts are reals in the code; here a piece gets one unit for   *)
(* every lattice edge it has on a complete segmentation of the sentence.   *)
(***************************************************************************)
UNILM_ERR_UTF8 == -4
UNILM_ERR_NOCOVER == -5
UNILM_ERR_IO == -8

MaxSentences == 2
MaxIters == 2
MaxThreshold == 2

RECURSIVE unilm_build_cp_offsets_from(_, _, _, _)
unilm_build_cp_offsets_from(s, cp_off_cap, pos, off) ==
  IF pos >= Len(s) THEN [rc |-> UNILM_OK, off |-> off]
  ELSE IF Len(off) >= cp_off_cap THEN [rc |-> UNILM_ERR_RANGE, off |-> off]
  ELSE Only({ IF next <= pos THEN [rc |-> UNILM_ERR_UTF8, off |-> off]
              ELSE unilm_build_cp_offsets_from(s, cp_off_cap, next, Append(off, next))
              : next \in {unilm_utf8_next(s, Len(s), pos)} })

\* [rc, off]: off[k + 1] is the byte offset of codepoint k, M = Len(off) - 1.
unilm_build_cp_offsets(s, cp_off_cap) ==
  IF cp_off_cap = 0 THEN [rc |-> UNILM_ERR_BADARG, off |-> <<>>]
  ELSE unilm_build_cp_offsets_from(s, cp_off_cap, 0, <<0>>)

\* UNILM_FOR_EACH_MATCH from codepoint k on, the walk being at node: the set of
\* [end_pos, pid] of the pieces that start at codepoint i.
RECURSIVE for_each_match_from(_, _, _, _, _, _)
for_each_match_from(m, sent, off, k, kmax, node) ==
  IF k >= kmax THEN {}
  ELSE Only({
         IF nx = 0 THEN {}
         ELSE Only({ (IF tid >= 0 THEN {[end_pos |-> k + 1, pid |-> tid]} ELSE {})
                        \cup for_each_match_from(m, sent, off, k + 1, kmax, nx)
                     : tid \in {unilm_da_term_id(m.trie, nx)} })
         : nx \in {unilm_walk(m.trie, SubSeq(sent, At(off, k) + 1, At(off, k + 1)), node, 1)} })

for_each_match(m, sent, off, i, maxlen) ==
  for_each_match_from(m, sent, off, i,
     MinOf({Len(off) - 1, i + (IF maxlen > 0 THEN maxlen ELSE Len(off) - 1)}), DA_ROOT)

\* The positions with a finite alpha: the forward pass from position i on.
RECURSIVE fb_forward(_, _, _, _, _, _)
fb_forward(m, sent, off, maxlen, i, finite) ==
  IF i >= Len(off) - 1 THEN finite
  ELSE IF i \notin finite THEN fb_forward(m, sent, off, maxlen, i + 1, finite)
  ELSE fb_forward(m, sent, off, maxlen, i + 1,
          finite \cup {e.end_pos : e \in for_each_match(m, sent, off, i, maxlen)})

\* The positions with a finite beta: the backward pass from position ii down.
RECURSIVE fb_backward(_, _, _, _, _, _)
fb_backward(m, sent, off, maxlen, ii, finite) ==
  IF ii = 0 THEN finite
  ELSE fb_backward(m, sent, off, maxlen, ii - 1,
          IF \E e \in for_each_match(m, sent, off, ii - 1, maxlen) : e.end_pos \in finite
          THEN finite \cup {ii - 1} ELSE finite)

\* The expected counts of one sentence added to counts.
fb_counts(m, sent, off, maxlen, alpha, beta, counts) ==
  [j \in 1..Len(counts) |->
     counts[j] + Cardinality({<<i, e>> \in UNION {{<<i2, e2>> : e2 \in for_each_match(m, sent, off, i2, maxlen)}
                                                  : i2 \in alpha \ {Len(off) - 1}} :
                                 e.pid = j - 1 /\ e.end_pos \in beta})]

\* unilm_forward_backward_sentence: [rc, counts].
unilm_forward_backward_sentence(m, sent, max_piece_len_cp, wk, counts) ==
  Only({
    IF o.rc # UNILM_OK THEN [rc |-> o.rc, counts |-> counts]
    ELSE IF Len(o.off) > wk.dp_cap THEN [rc |-> UNILM_ERR_RANGE, counts |-> counts]
    ELSE Only({
       IF (Len(o.off) - 1) \notin alpha THEN [rc |-> UNILM_ERR_NOCOVER, counts |-> counts]
       ELSE [rc |-> UNILM_OK,
             counts |-> fb_counts(m, sent, o.off, max_piece_len_cp, alpha,
                           fb_backward(m, sent, o.off, max_piece_len_cp,
                                       Len(o.off) - 1, {Len(o.off) - 1}), counts)]
       : alpha \in {fb_forward(m, sent, o.off, max_piece_len_cp, 0, {0})} })
    : o \in {unilm_build_cp_offsets(sent, wk.cp_off_cap)} })

\* The start of unilm_em_e_step: the argument checks, the reset of the counts
\* of the vocab_size pieces and of the iterator.
e_step_begin(t) ==
  IF t.m.vocab_size = 0 \/ t.wk.cp_off_cap = 0 \/ t.wk.dp_cap = 0
  THEN [t EXCEPT !.pc = "failed", !.rc = UNILM_ERR_BADARG]
  ELSE [t EXCEPT !.pc = "next", !.pos = 0,
                 !.counts = [j \in 1..Len(@) |-> IF j <= t.m.vocab_size THEN 0 ELSE @[j]]]

\* A partial E-step that is taken for a complete one.
e_step_after_break(t, r, fb) ==
  IF r # 1 THEN [t EXCEPT !.pc = "mstep", !.esteps = @ + 1]
  ELSE IF Len(At(t.corpus, t.pos)) = 0 THEN [t EXCEPT !.pos = @ + 1]
  ELSE IF fb.rc # UNILM_OK THEN [t EXCEPT !.pc = "mstep", !.esteps = @ + 1]
  ELSE [t EXCEPT !.pos = @ + 1, !.counts = fb.counts]

\* One round of the loop of unilm_em_e_step: r is what it->next returned, fb
\* what the forward-backward pass of the sentence returned.
e_step_after(t, r, fb) ==
  IF r = 0 THEN [t EXCEPT !.pc = "mstep", !.esteps = @ + 1]
  ELSE IF r < 0 THEN [t EXCEPT !.pc = "failed", !.rc = UNILM_ERR_IO]
  ELSE IF Len(At(t.corpus, t.pos)) = 0 THEN [t EXCEPT !.pos = @ + 1]
  ELSE IF fb.rc # UNILM_OK THEN [t EXCEPT !.pc = "failed", !.rc = fb.rc]
  ELSE [t EXCEPT !.pos = @ + 1, !.counts = fb.counts]

\* unilm_em_m_step: [rc, m]. lp maps count + smoothing to the logarithm of its
\* share, a non-decreasing map; norm is the map of unilm_model_normalize.
unilm_em_m_step(m, cfg, counts, lp, norm) ==
  IF m.vocab_size = 0 THEN [rc |-> UNILM_ERR_BADARG, m |-> m]
  ELSE IF \A i \in 0..(m.vocab_size - 1) : At(counts, i) + cfg.smoothing <= 0
  THEN [rc |-> UNILM_ERR_INTERNAL, m |-> m]
  ELSE [rc |-> UNILM_OK,
        m |-> unilm_model_normalize(
                [m EXCEPT !.logp = [j \in 1..Len(@) |->
                    IF j <= m.vocab_size THEN lp[counts[j] + cfg.smoothing] ELSE @[j]]],
                norm)]

\* Where the loop goes after the last step of an iteration.
next_iter(t) ==
  IF t.iter + 1 < t.cfg.num_iters THEN [t EXCEPT !.iter = @ + 1, !.pc = "estep"]
  ELSE [t EXCEPT !.iter = @ + 1, !.pc = "done", !.rc = UNILM_OK]

\* The loop after the M-step returned r: mmjp_train prunes in every iteration,
\* unilm_train_em_mdl when prune_each_iter is set.
after_m_step(t, r) ==
  IF r.rc # UNILM_OK THEN [t EXCEPT !.pc = "failed", !.rc = r.rc]
  ELSE IF t.driver = "mmjp_train" \/ t.cfg.prune_each_iter # 0
  THEN [t EXCEPT !.m = r.m, !.msteps = @ + 1, !.pc = "prune"]
  ELSE next_iter([t EXCEPT !.m = r.m, !.msteps = @ + 1])

after_prune(t, r) ==
  IF r.rc < 0 THEN [t EXCEPT !.m = r.m, !.pc = "failed", !.rc = r.rc]
  ELSE next_iter([t EXCEPT !.m = r.m, !.prunes = @ + 1])

TrainVocabs == {<<<<1>>, <<1, 1>>>>, <<<<1>>, <<14>>, <<1, 14>>>>}

TrainSentences == {<<>>, <<1>>, <<1, 1>>, <<1, 14>>}

TrainConfigs ==
  {c \in [num_iters : 1..MaxIters, max_piece_len_cp : {0, 1}, smoothing : {0, 1},
          mdl_lambda0 : {0, 1}, mdl_lambda_len : {0}, target_vocab_size : {0, 2},
          prune_each_iter : {0, 1}] : TRUE}

\* The maps from count + smoothing to logp the M-step can compute.
MStepMaps ==
  {[c \in 0..(2 * MaxSentences + 2) |-> IF c >= t THEN 0 ELSE MinLogp] : t \in 0..MaxThreshold}

\* Training is about to start its first iteration: the vocabulary is built, the
\* workspace and the counts are allocated.
InitTrain ==
  /\ TrieIdle
  /\ DecodeIdle
  /\ offs = offs_idle
  /\ tok = offs_idle
  /\ IoIdle
  /\ \E v \in TrainVocabs, corpus \in SeqsUpTo(TrainSentences, MaxSentences),
        cfg \in TrainConfigs, driver \in {"unilm_train_em_mdl", "mmjp_train"},
        cap \in {2, 3} :
       /\ driver = "mmjp_train" => cfg.prune_each_iter = 1 /\ cfg.smoothing = 1
       /\ um = [op |-> "train", driver |-> driver,
                m |-> add_pieces(unilm_model_init(Len(v), 4 * Len(v), DA_MIN_CAPACITY, TRUE),
                                 v, 0, 1),
                wk |-> [keep_cap |-> Len(v), heap_cap |-> Len(v),
                        cp_off_cap |-> cap, dp_cap |-> cap],
                cfg |-> cfg, corpus |-> corpus, counts |-> Fill(Len(v), 0),
                pc |-> "estep", iter |-> 0, pos |-> 0, rc |-> UNILM_OK,
                esteps |-> 0, msteps |-> 0, prunes |-> 0]

\* unilm_em_e_step is called.
EStepBegin ==
  /\ um.pc = "estep"
  /\ um' = e_step_begin(um)
  /\ UNCHANGED <<trieVars, decodeVars, offs, tok, ioVars>>

\* The E-step asks the iterator for a sentence: the next one of the corpus, the
\* end of the corpus after the last one, or an error of the iterator.
EStepNext ==
  /\ um.pc = "next"
  /\ \E r \in (IF um.pos < Len(um.corpus) THEN {1} ELSE {0}) \cup {-1} :
       um' = e_step_after(um, r,
                IF r = 1
                THEN unilm_forward_backward_sentence(um.m, At(um.corpus, um.pos),
                        um.cfg.max_piece_len_cp, um.wk, um.counts)
                ELSE [rc |-> UNILM_OK, counts |-> um.counts])
  /\ UNCHANGED <<trieVars, decodeVars, offs, tok, ioVars>>

MStep ==
  /\ um.pc = "mstep"
  /\ \E lp \in MStepMaps, norm \in NormMaps :
       um' = after_m_step(um, unilm_em_m_step(um.m, um.cfg, um.counts, lp, norm))
  /\ UNCHANGED <<trieVars, decodeVars, offs, tok, ioVars>>

TrainPrune ==
  /\ um.pc = "prune"
  /\ \E norm \in NormMaps, fuel \in {0, MaxAllocs} :
       um' = after_prune(um, unilm_prune_mdl(um.m, um.cfg, um.wk, um.counts, fuel, norm))
  /\ UNCHANGED <<trieVars, decodeVars, offs, tok, ioVars>>

NextTrain == EStepBegin \/ EStepNext \/ MStep \/ TrainPrune

SpecTrain == InitTrain /\ [][NextTrain]_vars


\* The counts a whole pass over the sentences from number k on adds to counts.
RECURSIVE CorpusCounts(_, _, _, _, _, _)
CorpusCounts(m, corpus, maxlen, wk, k, counts) ==
  IF k >= Len(corpus) THEN counts
  ELSE IF Len(At(corpus, k)) = 0 THEN CorpusCounts(m, corpus, maxlen, wk, k + 1, counts)
  ELSE CorpusCounts(m, corpus, maxlen, wk, k + 1,
          unilm_forward_backward_sentence(m, At(corpus, k), maxlen, wk, counts).counts)

\* C18: the M-step (and the pruning after it) only ever runs on the counts of an
\* E-step that went through the whole corpus starting from zero counts: when
\* the loop is about to run the M-step every sentence was consumed and the
\* counts of the pieces are those of the whole corpus; an E-step that ended on
\* an iterator error or a sentence error ends the loop, so that there are never
\* more M-steps than completed E-steps, nor more prunes than M-steps.
C18_MStepOnCompleteCounts ==
  um.op = "train" =>
    /\ um.pc = "mstep" =>
         /\ um.pos = Len(um.corpus)
         /\ \A i \in 0..(um.m.vocab_size - 1) :
               At(um.counts, i) =
                 At(CorpusCounts(um.m, um.corpus, um.cfg.max_piece_len_cp, um.wk, 0,
                                 Fill(Len(um.counts), 0)), i)
    /\ um.msteps <= um.esteps
    /\ um.prunes <= um.msteps
    /\ um.pc = "failed" => um.msteps <= um.iter /\ um.esteps <= um.iter + 1

\* The second E-step of a run, after an M-step on non-zero counts, stopped on
\* an error after it had counted a sentence.
C18_Witness ==
  /\ um.op = "train" /\ um.pc = "failed" /\ um.iter = 1 /\ um.pos >= 1
  /\ um.esteps = 1 /\ um.msteps = 1
  /\ um.rc \in {UNILM_ERR_IO, UNILM_ERR_NOCOVER, UNILM_ERR_RANGE}
  /\ \E i \in 0..(um.m.vocab_size - 1) : At(um.counts, i) > 0


(***************************************************************************)
(* The corpus side of mmjp_train: the counting pass over the corpus, the   *)
(* keep set, the mandatory single-codepoint pieces and the line iterator   *)
(* that maps every line before it is handed to the E-step.                 *)
(***************************************************************************)
CHAR_VOCAB_MIN == 256
ASCII_KEEP_LO == 32
ASCII_KEEP_HI == 126

MaxFileLen == 4
MaxAddFailures == 1

\* utf8_decode1 of mmjp_train.c: [ok, cp, adv].
train_utf8_decode1(s, pos) ==
  IF pos >= Len(s) THEN [ok |-> FALSE, cp |-> 0, adv |-> 0]
  ELSE IF s[pos + 1] < 128 THEN [ok |-> TRUE, cp |-> s[pos + 1], adv |-> 1]
  ELSE IF s[pos + 1] \div 32 = 6
  THEN (IF pos + 2 > Len(s) \/ s[pos + 2] \div 64 # 2 THEN [ok |-> FALSE, cp |-> 0, adv |-> 0]
        ELSE [ok |-> TRUE, cp |-> ((s[pos + 1] % 32)) * 64 + (s[pos + 2] % 64), adv |-> 2])
  ELSE IF s[pos + 1] \div 16 = 14
  THEN (IF pos + 3 > Len(s) \/ s[pos + 2] \div 64 # 2 \/ s[pos + 3] \div 64 # 2
        THEN [ok |-> FALSE, cp |-> 0, adv |-> 0]
        ELSE [ok |-> TRUE,
              cp |-> ((s[pos + 1] % 16)) * 4096 + ((s[pos + 2] % 64)) * 64 + (s[pos + 3] % 64),
              adv |-> 3])
  ELSE IF s[pos + 1] \div 8 = 30
  THEN (IF pos + 4 > Len(s) \/ s[pos + 2] \div 64 # 2 \/ s[pos + 3] \div 64 # 2
           \/ s[pos + 4] \div 64 # 2
        THEN [ok |-> FALSE, cp |-> 0, adv |-> 0]
        ELSE [ok |-> TRUE,
              cp |-> ((s[pos + 1] % 8)) * 262144 + ((s[pos + 2] % 64)) * 4096
                       + ((s[pos + 3] % 64)) * 64 + (s[pos + 4] % 64),
              adv |-> 4])
  ELSE [ok |-> FALSE, cp |-> 0, adv |-> 0]

\* utf8_encode1 of mmjp_train.c.
train_utf8_encode1(cp) ==
  IF cp <= 127 THEN <<cp>>
  ELSE IF cp <= 2047 THEN <<192 + ((cp \div 64) % 32), 128 + (cp % 64)>>
  ELSE IF cp <= 65535
  THEN <<224 + ((cp \div 4096) % 16), 128 + ((cp \div 64) % 64), 128 + (cp % 64)>>
  ELSE <<240 + ((cp \div 262144) % 8), 128 + ((cp \div 4096) % 64),
         128 + ((cp \div 64) % 64), 128 + (cp % 64)>>

\* --fallback_char: the first codepoint of the argument, '?' if it has none.
parse_fallback_char(arg) ==
  IF train_utf8_decode1(arg, 0).ok /\ train_utf8_decode1(arg, 0).adv > 0
  THEN train_utf8_decode1(arg, 0).cp ELSE 63

\* The discard loop of a line that is too long: the position after its newline.
RECURSIVE skip_to_eol(_, _)
skip_to_eol(file, pos) ==
  IF pos >= Len(file) THEN pos
  ELSE IF file[pos + 1] = 10 THEN pos + 1
  ELSE skip_to_eol(file, pos + 1)

\* The fgetc loop of file_iter_readline: [eof, skipped, pos, buf].
RECURSIVE read_line(_, _, _, _)
read_line(file, pos, max_line_bytes, buf) ==
  IF pos >= Len(file) THEN [eof |-> TRUE, skipped |-> FALSE, pos |-> pos, buf |-> buf]
  ELSE IF file[pos + 1] = 10
  THEN [eof |-> FALSE, skipped |-> FALSE, pos |-> pos + 1, buf |-> buf]
  ELSE IF max_line_bytes > 0 /\ Len(buf) >= max_line_bytes
  THEN [eof |-> FALSE, skipped |-> TRUE, pos |-> skip_to_eol(file, pos), buf |-> <<>>]
  ELSE read_line(file, pos + 1, max_line_bytes, Append(buf, file[pos + 1]))

RECURSIVE trim_line(_)
trim_line(buf) ==
  IF Len(buf) > 0 /\ buf[Len(buf)] \in {13, 32, 9} THEN trim_line(SubSeq(buf, 1, Len(buf) - 1))
  ELSE buf

append_meta_lf(it, buf) ==
  IF it.append_eol /\ Len(buf) > 0 THEN buf \o <<226, 150, 131>> ELSE buf

\* The mapping loop of file_iter_readline from byte pos on: [skipped, mapped].
RECURSIVE map_line(_, _, _, _, _)
map_line(it, buf, pos, cp_count, out) ==
  IF pos >= Len(buf) THEN [skipped |-> FALSE, mapped |-> out]
  ELSE IF it.skip_long_cp /\ it.max_sentence_cp > 0 /\ cp_count + 1 > it.max_sentence_cp
  THEN [skipped |-> TRUE, mapped |-> <<>>]
  ELSE Only({
     IF ~d.ok \/ d.adv = 0
     THEN map_line(it, buf, pos + 1, cp_count + 1, out \o train_utf8_encode1(it.fallback_cp))
     ELSE IF d.cp > 1114111 \/ (d.cp >= 55296 /\ d.cp <= 57343)
     THEN map_line(it, buf, pos + d.adv, cp_count + 1, out \o train_utf8_encode1(it.fallback_cp))
     ELSE IF d.cp # 0 /\ d.cp \in it.keep_chars
     THEN map_line(it, buf, pos + d.adv, cp_count + 1, out \o train_utf8_encode1(d.cp))
     ELSE map_line(it, buf, pos + d.adv, cp_count + 1, out \o train_utf8_encode1(it.fallback_cp))
     : d \in {train_utf8_decode1(buf, pos)} })

\* file_iter_readline at file position it.fpos: [r, fpos, buf, mapped]; buf and
\* mapped are empty for a line that is skipped.
file_iter_readline(it) ==
  Only({
    IF l.skipped THEN [r |-> 1, fpos |-> l.pos, buf |-> <<>>, mapped |-> <<>>]
    ELSE IF l.eof /\ Len(l.buf) = 0 THEN [r |-> 0, fpos |-> l.pos, buf |-> <<>>, mapped |-> <<>>]
    ELSE Only({
       IF ~it.mapping THEN [r |-> 1, fpos |-> l.pos, buf |-> b, mapped |-> <<>>]
       ELSE Only({ IF mp.skipped THEN [r |-> 1, fpos |-> l.pos, buf |-> <<>>, mapped |-> <<>>]
                   ELSE [r |-> 1, fpos |-> l.pos, buf |-> b, mapped |-> mp.mapped]
                   : mp \in {map_line(it, b, 0, 0, <<>>)} })
       : b \in {append_meta_lf(it, trim_line(l.buf))} })
    : l \in {read_line(it.file, it.fpos, it.max_line_bytes, <<>>)} })

\* file_corpus_next: [r, fpos, out], the empty lines skipped.
RECURSIVE file_corpus_next(_)
file_corpus_next(it) ==
  Only({
    IF rl.r <= 0 THEN [r |-> rl.r, fpos |-> rl.fpos, out |-> <<>>]
    ELSE IF Len(rl.buf) = 0 THEN file_corpus_next([it EXCEPT !.fpos = rl.fpos])
    ELSE [r |-> 1, fpos |-> rl.fpos,
          out |-> IF it.mapping /\ Len(rl.mapped) > 0 THEN rl.mapped ELSE rl.buf]
    : rl \in {file_iter_readline(it)} })

\* The codepoints of a line as the counting pass of main counts them.
RECURSIVE count_line(_, _, _)
count_line(buf, pos, fallback_cp) ==
  IF pos >= Len(buf) THEN <<>>
  ELSE Only({ IF ~d.ok \/ d.adv = 0
              THEN <<fallback_cp>> \o count_line(buf, pos + 1, fallback_cp)
              ELSE <<d.cp>> \o count_line(buf, pos + d.adv, fallback_cp)
              : d \in {train_utf8_decode1(buf, pos)} })

\* The counting pass: the codepoints of all lines, one entry per occurrence.
RECURSIVE count_pass(_)
count_pass(it) ==
  Only({ IF rl.r <= 0 THEN <<>>
         ELSE count_line(rl.buf, 0, it.fallback_cp) \o count_pass([it EXCEPT !.fpos = rl.fpos])
         : rl \in {file_iter_readline(it)} })

cp_count_of(cps, cp) == Cardinality({i \in 1..Len(cps) : cps[i] = cp})

\* cmp_cpair_desc: a comes before b.
cmp_cpair_desc(cps, a, b) ==
  \/ cp_count_of(cps, a) > cp_count_of(cps, b)
  \/ cp_count_of(cps, a) = cp_count_of(cps, b) /\ a < b

\* The keep set main builds from the counted codepoints: the fallback, the
\* printable ASCII range and the most frequent others up to char_vocab.
build_keep_chars(cps, fallback_cp, char_vocab) ==
  LET base == ({fallback_cp} \ {0}) \cup (ASCII_KEEP_LO..ASCII_KEEP_HI)
      arr == {cps[i] : i \in 1..Len(cps)} \ {0, 10, 13, 9}
  IN base \cup {c \in arr \ base :
                  Cardinality(base) + Cardinality({d \in arr \ base : cmp_cpair_desc(cps, d, c)})
                     < MaxOf({char_vocab, CHAR_VOCAB_MIN})}

FileBytes == {97, 9, 10, 195, 169}

FallbackArgs == {<<63>>, <<195, 169>>, <<192, 128>>}

\* mmjp_train has parsed its arguments and opened the corpus.
InitCorpus ==
  /\ TrieIdle
  /\ DecodeIdle
  /\ offs = offs_idle
  /\ tok = offs_idle
  /\ um = [op |-> "idle"]
  /\ mf = offs_idle
  /\ AuxIdle
  /\ \E file \in SeqsUpTo(FileBytes, MaxFileLen), arg \in FallbackArgs,
        lim \in {0, 2}, eol \in BOOLEAN :
       fit = [pc |-> "scan", file |-> file, fpos |-> 0, mapping |-> FALSE,
              keep_chars |-> {}, fallback_cp |-> parse_fallback_char(arg),
              max_line_bytes |-> lim, max_sentence_cp |-> lim, skip_long_cp |-> TRUE,
              append_eol |-> eol, singles |-> {}, add_failed |-> FALSE,
              delivered |-> FALSE, out |-> <<>>]

\* The counting pass and the construction of the keep set; the mapping is
\* switched on for the passes that follow.
ScanCorpus ==
  /\ fit.pc = "scan"
  /\ fit' = [fit EXCEPT !.pc = "singles", !.mapping = TRUE,
                        !.keep_chars = build_keep_chars(count_pass(fit), fit.fallback_cp, 0)]
  /\ UNCHANGED <<trieVars, decodeVars, offs, tok, um, mf, auxVars>>

\* The mandatory single codepoints are added to the UniLM model; a piece whose
\* unilm_model_add_piece fails is reported and left out.
AddSingles ==
  /\ fit.pc = "singles"
  /\ \E failed \in {f \in SUBSET {63, 97, 233} : Cardinality(f) <= MaxAddFailures} :
       fit' = [fit EXCEPT !.pc = "em",
                 !.singles = {train_utf8_encode1(cp) : cp \in fit.keep_chars \ failed},
                 !.add_failed = (fit.keep_chars \cap failed # {})]
  /\ UNCHANGED <<trieVars, decodeVars, offs, tok, um, mf, auxVars>>

\* The E-step asks for the next sentence.
CorpusNext ==
  /\ fit.pc = "em"
  /\ \E n \in {file_corpus_next(fit)} :
       fit' = [fit EXCEPT !.pc = IF n.r = 1 THEN "em" ELSE "end", !.fpos = n.fpos,
                          !.delivered = (n.r = 1), !.out = n.out]
  /\ UNCHANGED <<trieVars, decodeVars, offs, tok, um, mf, auxVars>>

NextCorpus == ScanCorpus \/ AddSingles \/ CorpusNext

SpecCorpus == InitCorpus /\ [][NextCorpus]_vars

\* C19: every codepoint of every sentence the iterator hands to the E-step is
\* a mandatory single-codepoint piece of the model (when every add_piece of the
\* singles succeeded).
C19_DeliveredCovered ==
  (fit.pc \in {"em", "end"} /\ fit.delivered /\ ~fit.add_failed) =>
     \A j \in 1..Len(CharsFrom(fit.out, 0)) : CharsFrom(fit.out, 0)[j] \in fit.singles


(***************************************************************************)
(* The model file of the tools: mmjp_model_save_bin and                    *)
(* mmjp_model_load_bin.  A file is the sequence of its bytes; the arrays   *)
(* that are written with fwrite are in the byte order of a little-endian   *)
(* host.  A 32-bit word is held as the integer of -2^31..2^31-1 that has   *)
(* its bits (the width of the integers of TLC), so a uint32_t above        *)
(* INT32_MAX is the negative integer with the same bits and a cast between *)
(* uint32_t and int32_t changes nothing.                                   *)
(***************************************************************************)
MMJP_MODEL_MAGIC == <<77, 77, 74, 80, 118, 50, 0, 0>>
MMJP_MODEL_MAGIC_V1 == <<77, 77, 74, 80, 118, 49, 0, 0>>
MMJP_MODEL_VERSION == 2
MMJP_MODEL_VERSION_V1 == 1
MMJP_DA_INDEX_BYTES == 4
INT32_MAX == 2147483647

MaxArrayLen == 2

\* The 31 low bits of a word.
low31(v) == IF v < 0 THEN (v + INT32_MAX) + 1 ELSE v

wr_u32(v) ==
  <<low31(v) % 256, (low31(v) \div 256) % 256, (low31(v) \div 65536) % 256,
    (low31(v) \div 16777216) + (IF v < 0 THEN 128 ELSE 0)>>

wr_i16(v) == <<(v % UINT16_MOD) % 256, (v % UINT16_MOD) \div 256>>

\* rd_u32 and rd_i16 at byte offset o of a file that has the bytes.
rd_u32(f, o) ==
  IF f[o + 4] >= 128
  THEN ((f[o + 1] + 256 * f[o + 2] + 65536 * f[o + 3] + 16777216 * (f[o + 4] - 128))
          - INT32_MAX) - 1
  ELSE f[o + 1] + 256 * f[o + 2] + 65536 * f[o + 3] + 16777216 * f[o + 4]

\* a < b on uint32_t
u32_lt(a, b) == IF (a < 0) = (b < 0) THEN a < b ELSE b < 0

rd_i16(f, o) ==
  IF f[o + 1] + 256 * f[o + 2] >= 32768 THEN f[o + 1] + 256 * f[o + 2] - UINT16_MOD
  ELSE f[o + 1] + 256 * f[o + 2]

RECURSIVE Flat(_)
Flat(ss) == IF ss = <<>> THEN <<>> ELSE Head(ss) \o Flat(Tail(ss))

wr_range(r) == wr_u32(r.lo) \o wr_u32(r.hi) \o <<r.class_id % 256, 0, 0, 0>>

\* The bytes mmjp_model_save_bin writes for a model it accepts.
save_bytes(m) ==
  MMJP_MODEL_MAGIC \o wr_u32(MMJP_MODEL_VERSION) \o wr_u32(MMJP_DA_INDEX_BYTES)
    \o wr_u32(m.lm.trie.capacity) \o wr_u32(m.lm.vocab_size)
    \o wr_u32(m.max_word_len)
    \o wr_i16(m.lm.unk_base) \o wr_i16(m.lm.unk_per_cp) \o wr_i16(m.lambda0)
    \o wr_i16(m.crf.trans00) \o wr_i16(m.crf.trans01) \o wr_i16(m.crf.trans10)
    \o wr_i16(m.crf.trans11) \o wr_i16(m.crf.bos_to1)
    \o wr_u32(m.crf.feat_count) \o wr_u32(m.lm.bigram_size)
    \o wr_u32(m.flags) \o <<m.cc.mode % 256, m.cc.fallback % 256, 0, 0>>
    \o wr_u32(m.cc.range_count)
    \o Flat([i \in 1..m.lm.trie.capacity |-> wr_u32(m.lm.trie.base[i])])
    \o Flat([i \in 1..m.lm.trie.capacity |-> wr_u32(m.lm.trie.check[i])])
    \o Flat([i \in 1..m.lm.vocab_size |-> wr_i16(m.lm.logp_uni[i])])
    \o Flat([i \in 1..m.lm.bigram_size |-> wr_u32(m.lm.bigram_key[i])])
    \o Flat([i \in 1..m.lm.bigram_size |-> wr_i16(m.lm.logp_bi[i])])
    \o Flat([i \in 1..m.crf.feat_count |-> wr_u32(m.crf.feat_key[i])])
    \o Flat([i \in 1..m.crf.feat_count |-> wr_i16(m.crf.feat_w[i])])
    \o Flat([i \in 1..m.cc.range_count |-> wr_range(m.cc.ranges[i])])

\* The version 1 file of a model, as mmjp_model_load_bin reads it: the header
\* ends with bigram_size and no range follows the arrays.
v1_bytes(m) ==
  MMJP_MODEL_MAGIC_V1 \o wr_u32(MMJP_MODEL_VERSION_V1) \o wr_u32(MMJP_DA_INDEX_BYTES)
    \o wr_u32(m.lm.trie.capacity) \o wr_u32(m.lm.vocab_size)
    \o wr_u32(m.max_word_len)
    \o wr_i16(m.lm.unk_base) \o wr_i16(m.lm.unk_per_cp) \o wr_i16(m.lambda0)
    \o wr_i16(m.crf.trans00) \o wr_i16(m.crf.trans01) \o wr_i16(m.crf.trans10)
    \o wr_i16(m.crf.trans11) \o wr_i16(m.crf.bos_to1)
    \o wr_u32(m.crf.feat_count) \o wr_u32(m.lm.bigram_size)
    \o Flat([i \in 1..m.lm.trie.capacity |-> wr_u32(m.lm.trie.base[i])])
    \o Flat([i \in 1..m.lm.trie.capacity |-> wr_u32(m.lm.trie.check[i])])
    \o Flat([i \in 1..m.lm.vocab_size |-> wr_i16(m.lm.logp_uni[i])])
    \o Flat([i \in 1..m.lm.bigram_size |-> wr_u32(m.lm.bigram_key[i])])
    \o Flat([i \in 1..m.lm.bigram_size |-> wr_i16(m.lm.logp_bi[i])])
    \o Flat([i \in 1..m.crf.feat_count |-> wr_u32(m.crf.feat_key[i])])
    \o Flat([i \in 1..m.crf.feat_count |-> wr_i16(m.crf.feat_w[i])])

\* mmjp_model_save_bin: [rc, file]; can_open is whether fopen succeeded.
mmjp_model_save_bin(m, can_open) ==
  IF m.lm.trie.capacity = 0 THEN [rc |-> -2, file |-> <<>>]
  ELSE IF m.lm.vocab_size = 0 THEN [rc |-> -3, file |-> <<>>]
  ELSE IF ~can_open THEN [rc |-> -10, file |-> <<>>]
  ELSE [rc |-> 0, file |-> save_bytes(m)]

nm_none == [max_word_len |-> 0]

\* The arrays of a file whose header was read: they start at byte hs.
load_arrays(f, is_v1, hs, da_cap, vocab, max_word_len, bigram_size, feat_count, flags, cc_mode, cc_fallback, cc_range_count, can_alloc) ==
  LET o_check == hs + 4 * da_cap
      o_uni == o_check + 4 * da_cap
      o_bk == o_uni + 2 * vocab
      o_bl == o_bk + 4 * bigram_size
      o_fk == o_bl + 2 * bigram_size
      o_fw == o_fk + 4 * feat_count
      o_rg == o_fw + 2 * feat_count
      n_rg == IF is_v1 THEN 0 ELSE cc_range_count
  IN IF ~can_alloc THEN [rc |-> -20, m |-> nm_none]
     ELSE IF Len(f) < o_check THEN [rc |-> -21, m |-> nm_none]
     ELSE IF Len(f) < o_uni THEN [rc |-> -22, m |-> nm_none]
     ELSE IF Len(f) < o_bk THEN [rc |-> -23, m |-> nm_none]
     ELSE IF Len(f) < o_bl THEN [rc |-> -24, m |-> nm_none]
     ELSE IF Len(f) < o_fk THEN [rc |-> -25, m |-> nm_none]
     ELSE IF Len(f) < o_fw THEN [rc |-> -26, m |-> nm_none]
     ELSE IF Len(f) < o_rg THEN [rc |-> -27, m |-> nm_none]
     ELSE IF Len(f) < o_rg + 12 * n_rg THEN [rc |-> -28, m |-> nm_none]
     ELSE [rc |-> 0,
           m |-> [max_word_len |-> max_word_len % UINT16_MOD,
                  lambda0 |-> rd_i16(f, 32),
                  flags |-> flags,
                  lm |-> [trie |-> [capacity |-> da_cap,
                                    base |-> [i \in 1..da_cap |-> rd_u32(f, hs + 4 * (i - 1))],
                                    check |-> [i \in 1..da_cap |-> rd_u32(f, o_check + 4 * (i - 1))]],
                          logp_uni |-> [i \in 1..vocab |-> rd_i16(f, o_uni + 2 * (i - 1))],
                          vocab_size |-> vocab,
                          bigram_key |-> [i \in 1..bigram_size |-> rd_u32(f, o_bk + 4 * (i - 1))],
                          logp_bi |-> [i \in 1..bigram_size |-> rd_i16(f, o_bl + 2 * (i - 1))],
                          bigram_size |-> bigram_size,
                          unk_base |-> rd_i16(f, 28),
                          unk_per_cp |-> rd_i16(f, 30)],
                  crf |-> [trans00 |-> rd_i16(f, 34), trans01 |-> rd_i16(f, 36),
                           trans10 |-> rd_i16(f, 38), trans11 |-> rd_i16(f, 40),
                           bos_to1 |-> rd_i16(f, 42),
                           feat_key |-> [i \in 1..feat_count |-> rd_u32(f, o_fk + 4 * (i - 1))],
                           feat_w |-> [i \in 1..feat_count |-> rd_i16(f, o_fw + 2 * (i - 1))],
                           feat_count |-> feat_count],
                  cc |-> [mode |-> cc_mode, fallback |-> cc_fallback,
                          ranges |-> [i \in 1..n_rg |->
                                        [lo |-> rd_u32(f, o_rg + 12 * (i - 1)),
                                         hi |-> rd_u32(f, o_rg + 12 * (i - 1) + 4),
                                         class_id |-> f[o_rg + 12 * (i - 1) + 9]]],
                          range_count |-> cc_range_count]]]

\* The header of a file with a known magic.
load_header(f, is_v1, can_alloc) ==
  IF Len(f) < 28 THEN [rc |-> -13, m |-> nm_none]
  ELSE IF rd_u32(f, 8) # (IF is_v1 THEN MMJP_MODEL_VERSION_V1 ELSE MMJP_MODEL_VERSION)
  THEN [rc |-> -14, m |-> nm_none]
  ELSE IF rd_u32(f, 12) # MMJP_DA_INDEX_BYTES THEN [rc |-> -15, m |-> nm_none]
  ELSE IF u32_lt(rd_u32(f, 16), 2) \/ rd_u32(f, 20) = 0 \/ rd_u32(f, 24) = 0
  THEN [rc |-> -16, m |-> nm_none]
  ELSE IF Len(f) < 34 THEN [rc |-> -17, m |-> nm_none]
  ELSE IF Len(f) < 44 THEN [rc |-> -18, m |-> nm_none]
  ELSE IF Len(f) < 52 THEN [rc |-> -19, m |-> nm_none]
  ELSE IF is_v1
  THEN load_arrays(f, TRUE, 52, rd_u32(f, 16), rd_u32(f, 20), rd_u32(f, 24),
                   rd_u32(f, 48), rd_u32(f, 44), 0,
                   NPYCRF_CC_MODE_UTF8LEN, NPYCRF_CC_MODE_ASCII, 0, can_alloc)
  ELSE IF Len(f) < 64 THEN [rc |-> -19, m |-> nm_none]
  ELSE load_arrays(f, FALSE, 64, rd_u32(f, 16), rd_u32(f, 20), rd_u32(f, 24),
                   rd_u32(f, 48), rd_u32(f, 44), rd_u32(f, 52),
                   f[57], f[58], rd_u32(f, 60), can_alloc)

\* mmjp_model_load_bin on an existing file: [rc, m].
mmjp_model_load_bin(f, can_alloc) ==
  IF Len(f) < 8 THEN [rc |-> -11, m |-> nm_none]
  ELSE IF SubSeq(f, 1, 8) = MMJP_MODEL_MAGIC THEN load_header(f, FALSE, can_alloc)
  ELSE IF SubSeq(f, 1, 8) = MMJP_MODEL_MAGIC_V1 THEN load_header(f, TRUE, can_alloc)
  ELSE [rc |-> -12, m |-> nm_none]

I16Vals == {-32768, -1, 256, 32767}

U32Vals == {0, 16909060, -1}

I32Vals == {(0 - INT32_MAX) - 1, -1, 65536}

\* The models the tools save: every 16-bit field takes a or b, neighbours in
\* the file differ when a # b; key and index arrays take u and v.
nm_of(a, b, u, v, x, L, cap, vocab, n, mode, rn) ==
  [max_word_len |-> L, lambda0 |-> a, flags |-> v,
   lm |-> [trie |-> [capacity |-> cap,
                     base |-> [i \in 1..cap |-> IF i % 2 = 1 THEN x ELSE 0 - i],
                     check |-> [i \in 1..cap |-> IF i % 2 = 1 THEN i ELSE x]],
           logp_uni |-> [i \in 1..vocab |-> IF i % 2 = 1 THEN a ELSE b],
           vocab_size |-> vocab,
           bigram_key |-> [i \in 1..n |-> IF i % 2 = 1 THEN u ELSE v],
           logp_bi |-> [i \in 1..n |-> IF i % 2 = 1 THEN b ELSE a],
           bigram_size |-> n,
           unk_base |-> a, unk_per_cp |-> b],
   crf |-> [trans00 |-> b, trans01 |-> a, trans10 |-> b, trans11 |-> a, bos_to1 |-> b,
            feat_key |-> [i \in 1..(MaxArrayLen - n) |-> IF i % 2 = 1 THEN v ELSE u],
            feat_w |-> [i \in 1..(MaxArrayLen - n) |-> IF i % 2 = 1 THEN a ELSE b],
            feat_count |-> MaxArrayLen - n],
   cc |-> [mode |-> mode, fallback |-> (mode + 1) % 4,
           ranges |-> [i \in 1..rn |-> [lo |-> u, hi |-> v, class_id |-> 10 * i + mode]],
           range_count |-> rn]]

\* A tool holds a model it is about to save.
InitModelIo ==
  /\ TrieIdle
  /\ DecodeIdle
  /\ offs = offs_idle
  /\ tok = offs_idle
  /\ um = [op |-> "idle"]
  /\ fit = offs_idle
  /\ AuxIdle
  /\ \E a \in I16Vals, b \in {-1, 256}, u \in U32Vals, v \in U32Vals \ {0}, x \in I32Vals,
        L \in {0, 1, 65535}, cap \in {2, 3}, vocab \in 0..2, n \in 0..MaxArrayLen,
        mode \in 0..3, rn \in {0, MaxArrayLen} :
       mf = [pc |-> "model", m |-> nm_of(a, b, u, v, x, L, cap, vocab, n, mode, rn),
             file |-> <<>>, rc |-> 0, out |-> nm_none]

SaveBin ==
  /\ mf.pc = "model"
  /\ \E can_open \in BOOLEAN :
       \E r \in {mmjp_model_save_bin(mf.m, can_open)} :
          mf' = [mf EXCEPT !.pc = IF r.rc = 0 THEN "saved" ELSE "save_failed",
                           !.file = r.file, !.rc = r.rc]
  /\ UNCHANGED <<trieVars, decodeVars, offs, tok, um, fit, auxVars>>

\* The model is on disk as a well-formed file of version 1.
HaveV1File ==
  /\ mf.pc = "model"
  /\ mf.m.max_word_len > 0
  /\ mf.m.lm.vocab_size > 0
  /\ mf' = [mf EXCEPT !.pc = "v1file", !.file = v1_bytes(mf.m)]
  /\ UNCHANGED <<trieVars, decodeVars, offs, tok, um, fit, auxVars>>

LoadBin ==
  /\ mf.pc \in {"saved", "v1file"}
  /\ \E can_alloc \in BOOLEAN :
       \E r \in {mmjp_model_load_bin(mf.file, can_alloc)} :
          mf' = [mf EXCEPT !.pc = IF mf.pc = "saved" THEN "loaded" ELSE "loaded_v1",
                           !.rc = r.rc, !.out = r.m]
  /\ UNCHANGED <<trieVars, decodeVars, offs, tok, um, fit, auxVars>>

NextModelIo == SaveBin \/ HaveV1File \/ LoadBin

SpecModelIo == InitModelIo /\ [][NextModelIo]_vars

\* C20: the file of a model that mmjp_model_save_bin saved is loaded by
\* mmjp_model_load_bin (unless its allocation fails) into a model with the same
\* max_word_len, unknown-word parameters, lambda0, transitions, bos_to1, flags,
\* character-class setting and ranges, trie, unigram, bigram and feature arrays.
C20_LoadOfSave ==
  (mf.pc = "loaded" /\ mf.rc # -20) => (mf.rc = 0 /\ mf.out = mf.m)


\* C21: loading a well-formed version 1 file succeeds (unless the allocation
\* fails) and gives a model whose flags are 0 and whose character-class mode
\* is COMPAT.
C21_V1LoadsAsCompat ==
  (mf.pc = "loaded_v1" /\ mf.rc # -20) =>
     (mf.rc = 0 /\ mf.out.flags = 0 /\ mf.out.cc.mode = NPYCRF_CC_MODE_COMPAT)


(***************************************************************************)
(* The lossless codec of mmjp_lossless.c.  A destination buffer is the     *)
(* record [b, oob]: b holds the bytes of the caller's array (UNWRITTEN     *)
(* where nothing was stored) and oob tells that a store went past its end. *)
(***************************************************************************)
MMJP_LOSSLESS_ESCAPE == 9600
MMJP_LOSSLESS_SPACE == 9601
MMJP_LOSSLESS_TAB == 9602
MMJP_LOSSLESS_LF == 9603
MMJP_LOSSLESS_CR == 9604
UNWRITTEN == -1
\* A capacity that wrapped around below zero in size_t: larger than any length.
CAP_WRAPPED == -1

MaxSrcCps == 3
SmallCap == 4

utf8_encode_cp(cp) ==
  IF cp <= 127 THEN <<cp>>
  ELSE IF cp <= 2047 THEN <<192 + ((cp \div 64) % 32), 128 + (cp % 64)>>
  ELSE IF cp <= 65535
  THEN <<224 + ((cp \div 4096) % 16), 128 + ((cp \div 64) % 64), 128 + (cp % 64)>>
  ELSE <<240 + ((cp \div 262144) % 8), 128 + ((cp \div 4096) % 64),
         128 + ((cp \div 64) % 64), 128 + (cp % 64)>>

ll_cont(b) == b \div 64 = 2

dec_fail == [ok |-> FALSE, cp |-> 0, adv |-> 0]

\* utf8_decode_cp(s, len, pos, &cp, &adv) with len = Len(s)
utf8_decode_cp(s, pos) ==
  IF pos >= Len(s) THEN dec_fail
  ELSE IF s[pos + 1] < 128 THEN [ok |-> TRUE, cp |-> s[pos + 1], adv |-> 1]
  ELSE IF s[pos + 1] \div 32 = 6
  THEN IF pos + 2 > Len(s) THEN dec_fail
       ELSE IF ~ll_cont(s[pos + 2]) THEN dec_fail
       ELSE [ok |-> TRUE, cp |-> (s[pos + 1] % 32) * 64 + (s[pos + 2] % 64), adv |-> 2]
  ELSE IF s[pos + 1] \div 16 = 14
  THEN IF pos + 3 > Len(s) THEN dec_fail
       ELSE IF ~ll_cont(s[pos + 2]) \/ ~ll_cont(s[pos + 3]) THEN dec_fail
       ELSE [ok |-> TRUE,
             cp |-> (s[pos + 1] % 16) * 4096 + (s[pos + 2] % 64) * 64 + (s[pos + 3] % 64),
             adv |-> 3]
  ELSE IF s[pos + 1] \div 8 = 30
  THEN IF pos + 4 > Len(s) THEN dec_fail
       ELSE IF ~ll_cont(s[pos + 2]) \/ ~ll_cont(s[pos + 3]) \/ ~ll_cont(s[pos + 4])
       THEN dec_fail
       ELSE [ok |-> TRUE,
             cp |-> (s[pos + 1] % 8) * 262144 + (s[pos + 2] % 64) * 4096
                      + (s[pos + 3] % 64) * 64 + (s[pos + 4] % 64),
             adv |-> 4]
  ELSE dec_fail

is_meta_char_above(cp) == cp > MMJP_LOSSLESS_ESCAPE /\ cp <= MMJP_LOSSLESS_CR
is_meta_char(cp) == cp >= MMJP_LOSSLESS_ESCAPE /\ cp <= MMJP_LOSSLESS_CR

new_buf(cap) == [b |-> [i \in 1..cap |-> UNWRITTEN], oob |-> FALSE]

\* if (dst && at + Len(bytes) <= cap) memcpy(dst + at, bytes): dst starts at
\* index base of the array, cap is the capacity the callee was told.
buf_store(buf, base, cap, at, bytes) ==
  IF cap # CAP_WRAPPED /\ at + Len(bytes) > cap THEN buf
  ELSE IF bytes = <<>> THEN buf
  ELSE IF base + at + Len(bytes) > Len(buf.b) THEN [buf EXCEPT !.oob = TRUE]
  ELSE [buf EXCEPT !.b = [i \in 1..Len(buf.b) |->
                            IF i > base + at /\ i <= base + at + Len(bytes)
                            THEN bytes[i - base - at] ELSE buf.b[i]]]

\* if (dst && out_len < cap) dst[out_len] = x
buf_store1(buf, base, cap, at, x) ==
  IF cap # CAP_WRAPPED /\ at >= cap THEN buf
  ELSE buf_store(buf, base, CAP_WRAPPED, at, <<x>>)

\* What one turn of the loop of mmjp_lossless_encode writes for the codepoint
\* d decoded at pos.
encode_cp(src, pos, d, include_newlines) ==
  IF d.cp = 32 THEN utf8_encode_cp(MMJP_LOSSLESS_SPACE)
  ELSE IF d.cp = 9 THEN utf8_encode_cp(MMJP_LOSSLESS_TAB)
  ELSE IF include_newlines /\ d.cp = 10 THEN utf8_encode_cp(MMJP_LOSSLESS_LF)
  ELSE IF include_newlines /\ d.cp = 13 THEN utf8_encode_cp(MMJP_LOSSLESS_CR)
  ELSE IF is_meta_char(d.cp) THEN utf8_encode_cp(MMJP_LOSSLESS_ESCAPE) \o utf8_encode_cp(d.cp)
  ELSE SubSeq(src, pos + 1, pos + d.adv)

RECURSIVE encode_from(_, _, _, _, _)
encode_from(src, pos, buf, out_len, include_newlines) ==
  IF pos >= Len(src)
  THEN [len |-> out_len, buf |-> buf_store1(buf, 0, Len(buf.b), out_len, 0)]
  ELSE IF ~utf8_decode_cp(src, pos).ok
  THEN encode_from(src, pos + 1, buf_store1(buf, 0, Len(buf.b), out_len, src[pos + 1]),
                   out_len + 1, include_newlines)
  ELSE encode_from(src, pos + utf8_decode_cp(src, pos).adv,
                   buf_store(buf, 0, Len(buf.b), out_len,
                             encode_cp(src, pos, utf8_decode_cp(src, pos), include_newlines)),
                   out_len + Len(encode_cp(src, pos, utf8_decode_cp(src, pos), include_newlines)),
                   include_newlines)

\* mmjp_lossless_encode(src, src_len, dst, dst_cap, include_newlines): the
\* returned length and the buffer.
mmjp_lossless_encode(src, dst_cap, include_newlines) ==
  encode_from(src, 0, new_buf(dst_cap), 0, include_newlines)

\* One turn of the loop of mmjp_lossless_decode for the codepoint d decoded at
\* pos: the bytes it writes and the number of source bytes it consumes.
decode_cp(src, pos, d) ==
  IF d.cp = MMJP_LOSSLESS_SPACE THEN [out |-> <<32>>, adv |-> d.adv]
  ELSE IF d.cp = MMJP_LOSSLESS_TAB THEN [out |-> <<9>>, adv |-> d.adv]
  ELSE IF d.cp = MMJP_LOSSLESS_LF THEN [out |-> <<10>>, adv |-> d.adv]
  ELSE IF d.cp = MMJP_LOSSLESS_CR THEN [out |-> <<13>>, adv |-> d.adv]
  ELSE IF d.cp = MMJP_LOSSLESS_ESCAPE
  THEN IF pos + d.adv < Len(src) /\ utf8_decode_cp(src, pos + d.adv).ok
       THEN [out |-> utf8_encode_cp(utf8_decode_cp(src, pos + d.adv).cp),
             adv |-> d.adv + utf8_decode_cp(src, pos + d.adv).adv]
       ELSE [out |-> utf8_encode_cp(MMJP_LOSSLESS_ESCAPE), adv |-> d.adv]
  ELSE [out |-> SubSeq(src, pos + 1, pos + d.adv), adv |-> d.adv]

RECURSIVE decode_from(_, _, _, _, _, _)
decode_from(src, pos, buf, base, cap, out_len) ==
  IF pos >= Len(src)
  THEN [len |-> out_len, buf |-> buf_store1(buf, base, cap, out_len, 0)]
  ELSE IF ~utf8_decode_cp(src, pos).ok
  THEN decode_from(src, pos + 1, buf_store1(buf, base, cap, out_len, src[pos + 1]),
                   base, cap, out_len + 1)
  ELSE decode_from(src, pos + decode_cp(src, pos, utf8_decode_cp(src, pos)).adv,
                   buf_store(buf, base, cap, out_len,
                             decode_cp(src, pos, utf8_decode_cp(src, pos)).out),
                   base, cap,
                   out_len + Len(decode_cp(src, pos, utf8_decode_cp(src, pos)).out))

\* mmjp_lossless_decode(src, src_len, dst, dst_cap)
mmjp_lossless_decode(src, dst_cap) == decode_from(src, 0, new_buf(dst_cap), 0, dst_cap, 0)

\* dst_cap - out_len in size_t
cap_minus(dst_cap, out_len) == IF out_len > dst_cap THEN CAP_WRAPPED ELSE dst_cap - out_len

RECURSIVE detok_from(_, _, _, _)
detok_from(tokens, i, buf, out_len) ==
  IF i > Len(tokens)
  THEN [len |-> out_len, buf |-> buf_store1(buf, 0, Len(buf.b), out_len, 0)]
  ELSE IF tokens[i] = <<>> THEN detok_from(tokens, i + 1, buf, out_len)
  ELSE detok_from(tokens, i + 1,
                  decode_from(tokens[i], 0, buf, out_len,
                              cap_minus(Len(buf.b), out_len), 0).buf,
                  out_len + decode_from(tokens[i], 0, buf, out_len,
                                        cap_minus(Len(buf.b), out_len), 0).len)

\* mmjp_lossless_detokenize(tokens, token_lens, n_tokens, dst, dst_cap)
mmjp_lossless_detokenize(tokens, dst_cap) == detok_from(tokens, 1, new_buf(dst_cap), 0)

\* The text a returned length and buffer stand for, when it fitted.
buf_text(r) == SubSeq(r.buf.b, 1, r.len)

Fits(r) == r.len < Len(r.buf.b) /\ ~r.buf.oob

SrcCps == {9, 10, 13, 32, 97, MMJP_LOSSLESS_ESCAPE, MMJP_LOSSLESS_SPACE, MMJP_LOSSLESS_TAB,
           MMJP_LOSSLESS_LF, MMJP_LOSSLESS_CR, 128512}

RECURSIVE utf8_of(_)
utf8_of(cps) == IF cps = <<>> THEN <<>> ELSE utf8_encode_cp(Head(cps)) \o utf8_of(Tail(cps))

\* The byte offsets of the codepoint boundaries strictly inside s.
RECURSIVE inner_bounds(_, _)
inner_bounds(s, pos) ==
  IF pos >= Len(s) THEN {}
  ELSE (IF pos > 0 THEN {pos} ELSE {})
         \cup inner_bounds(s, pos + (IF utf8_decode_cp(s, pos).ok
                                     THEN utf8_decode_cp(s, pos).adv ELSE 1))

\* s cut at the offsets of cuts.
RECURSIVE split_at(_, _, _)
split_at(s, cuts, from) ==
  IF \A c \in cuts : c <= from THEN <<SubSeq(s, from + 1, Len(s))>>
  ELSE <<SubSeq(s, from + 1, MinOf({c \in cuts : c > from}))>>
         \o split_at(s, cuts, MinOf({c \in cuts : c > from}))

LargeCap == 6 * (MaxSrcCps + 1) + 1

LlCaps == {SmallCap, LargeCap}

InitLossless ==
  /\ TrieIdle
  /\ DecodeIdle
  /\ offs = offs_idle
  /\ tok = offs_idle
  /\ um = [op |-> "idle"]
  /\ fit = offs_idle
  /\ mf = offs_idle
  /\ sa = offs_idle
  /\ ccv = offs_idle
  /\ sup = offs_idle
  /\ scan = offs_idle
  /\ emi = offs_idle
  /\ \E n \in 0..MaxSrcCps : \E cps \in [1..n -> SrcCps] : \E nl \in BOOLEAN :
       ll = [pc |-> "src", x |-> utf8_of(cps), include_newlines |-> nl,
             enc |-> [len |-> 0, buf |-> new_buf(0)],
             out |-> [len |-> 0, buf |-> new_buf(0)], tokens |-> <<>>]

LlUnchanged == UNCHANGED <<trieVars, decodeVars, offs, tok, um, fit, mf, sa, ccv, sup, scan, emi>>

LosslessEncode ==
  /\ ll.pc = "src"
  /\ \E cap \in LlCaps :
       ll' = [ll EXCEPT !.pc = "encoded",
                        !.enc = mmjp_lossless_encode(ll.x, cap, ll.include_newlines)]
  /\ LlUnchanged

LosslessDecode ==
  /\ ll.pc = "encoded"
  /\ Fits(ll.enc)
  /\ \E cap \in LlCaps :
       ll' = [ll EXCEPT !.pc = "decoded", !.out = mmjp_lossless_decode(buf_text(ll.enc), cap)]
  /\ LlUnchanged

\* The tokenizer cut the encoded text at some codepoint boundaries and the
\* tokens are detokenized.
LosslessDetokenize ==
  /\ ll.pc = "encoded"
  /\ Fits(ll.enc)
  /\ \E cuts \in SUBSET inner_bounds(buf_text(ll.enc), 0) : \E cap \in LlCaps :
       ll' = [ll EXCEPT !.pc = "detokenized",
                        !.tokens = split_at(buf_text(ll.enc), cuts, 0),
                        !.out = mmjp_lossless_detokenize(split_at(buf_text(ll.enc), cuts, 0), cap)]
  /\ LlUnchanged

NextLossless == LosslessEncode \/ LosslessDecode \/ LosslessDetokenize

SpecLossless == InitLossless /\ [][NextLossless]_vars

\* C22: for every valid UTF-8 string x, meta-codepoints included, and with
\* the newline encoding on or off, decoding the encoding of x gives x back
\* (when the buffers hold the results).
C22_LosslessRoundTrip ==
  (ll.pc = "decoded" /\ Fits(ll.out)) => buf_text(ll.out) = ll.x

C22_Witness ==
  /\ ll.pc = "decoded"
  /\ Fits(ll.out)
  /\ ll.x = utf8_of(<<MMJP_LOSSLESS_ESCAPE, MMJP_LOSSLESS_SPACE, 10>>)
  /\ ~ll.include_newlines

\* C23: detokenizing the tokens gives the bytes that lossless decode gives
\* for their concatenation, for every cut of an encoded string at codepoint
\* boundaries.
C23_DetokenizeIsDecodeOfConcat ==
  (ll.pc = "detokenized" /\ Fits(ll.out)) =>
     buf_text(ll.out) = buf_text(mmjp_lossless_decode(buf_text(ll.enc), LargeCap))


(***************************************************************************)
(* The suffix array of sa_utf8.c.  An array index i of the C code is the   *)
(* index i + 1 of a sequence.  The texts of the model have at most         *)
(* SA_SORT_INSERTION_THRESHOLD suffix starts, for which sa_sort_3way_radix *)
(* does not enter its partitioning loop and is one insertion sort.         *)
(***************************************************************************)
SA_BUILD_SKIP_ASCII_SPACE == 1
SA_BUILD_SKIP_ASCII_PUNCT == 2
SA_BUILD_VALIDATE_UTF8 == 4
SA_SORT_INSERTION_THRESHOLD == 16
NEXT_KEY_BUF == 64

MaxSaText == 4
MaxSaKey == 2

sa_flag(flags, f) == (flags \div f) % 2 = 1

sa_is_utf8_cont(b) == b \div 64 = 2

sa_utf8_seq_len_from_lead(lead) ==
  IF lead < 128 THEN 1
  ELSE IF lead \div 32 = 6 THEN 2
  ELSE IF lead \div 16 = 14 THEN 3
  ELSE IF lead \div 8 = 30 THEN 4
  ELSE 1

\* sa_utf8_advance(text + pos, text_len - pos, flags)
sa_utf8_advance(txt, pos, flags) ==
  IF Len(txt) - pos = 0 THEN 0
  ELSE IF sa_utf8_seq_len_from_lead(txt[pos + 1]) > Len(txt) - pos THEN 1
  ELSE IF ~sa_flag(flags, SA_BUILD_VALIDATE_UTF8) THEN sa_utf8_seq_len_from_lead(txt[pos + 1])
  ELSE IF \E i \in 1..(sa_utf8_seq_len_from_lead(txt[pos + 1]) - 1) :
            ~sa_is_utf8_cont(txt[pos + 1 + i])
  THEN 1
  ELSE sa_utf8_seq_len_from_lead(txt[pos + 1])

sa_is_ascii_space(c) == c \in {32, 9, 13, 10}

sa_is_ascii_punct(c) ==
  (c >= 33 /\ c <= 47) \/ (c >= 58 /\ c <= 64) \/ (c >= 91 /\ c <= 96) \/ (c >= 123 /\ c <= 126)

sa_skip(lead, flags) ==
  \/ sa_flag(flags, SA_BUILD_SKIP_ASCII_SPACE) /\ lead < 128 /\ sa_is_ascii_space(lead)
  \/ sa_flag(flags, SA_BUILD_SKIP_ASCII_PUNCT) /\ lead < 128 /\ sa_is_ascii_punct(lead)

\* The loop that collects the suffix starts: [ok, sa].
RECURSIVE sa_collect(_, _, _, _, _)
sa_collect(txt, pos, flags, cap, out) ==
  IF pos >= Len(txt) THEN [ok |-> TRUE, sa |-> out]
  ELSE IF ~sa_skip(txt[pos + 1], flags) /\ ~sa_is_utf8_cont(txt[pos + 1])
  THEN IF Len(out) >= cap THEN [ok |-> FALSE, sa |-> out]
       ELSE sa_collect(txt, pos + MaxOf({1, sa_utf8_advance(txt, pos, flags)}), flags, cap,
                       Append(out, pos))
  ELSE sa_collect(txt, pos + MaxOf({1, sa_utf8_advance(txt, pos, flags)}), flags, cap, out)

RECURSIVE sa_compare_suffix(_, _, _)
sa_compare_suffix(txt, pa, pb) ==
  IF pa < Len(txt) /\ pb < Len(txt)
  THEN IF txt[pa + 1] # txt[pb + 1]
       THEN (IF txt[pa + 1] < txt[pb + 1] THEN -1 ELSE 1)
       ELSE sa_compare_suffix(txt, pa + 1, pb + 1)
  ELSE IF pa = Len(txt) /\ pb = Len(txt) THEN 0
  ELSE IF pa = Len(txt) THEN -1 ELSE 1

\* The inner loop of sa_insertion_sort: v sinks from index j.
RECURSIVE sa_sink(_, _, _, _, _, _)
sa_sink(s, l, j, v, depth, txt) ==
  IF j > l /\ sa_compare_suffix(txt, v + depth, s[j] + depth) < 0
  THEN sa_sink([s EXCEPT ![j + 1] = s[j]], l, j - 1, v, depth, txt)
  ELSE [s EXCEPT ![j + 1] = v]

RECURSIVE sa_insertion_from(_, _, _, _, _, _)
sa_insertion_from(s, l, r, i, depth, txt) ==
  IF i >= r THEN s
  ELSE sa_insertion_from(sa_sink(s, l, i, s[i + 1], depth, txt), l, r, i + 1, depth, txt)

sa_insertion_sort(s, l, r, depth, txt) == sa_insertion_from(s, l, r, l + 1, depth, txt)

sa_sort_3way_radix(s, n, txt) == IF n < 2 THEN s ELSE sa_insertion_sort(s, 0, n, 0, txt)

\* sa_utf8_build: the number of suffixes written and the array.
sa_utf8_build(cap, txt, flags) ==
  IF cap = 0 THEN [n |-> 0, sa |-> <<>>]
  ELSE IF ~sa_collect(txt, 0, flags, cap, <<>>).ok
  THEN [n |-> 0, sa |-> sa_collect(txt, 0, flags, cap, <<>>).sa]
  ELSE [n |-> Len(sa_collect(txt, 0, flags, cap, <<>>).sa),
        sa |-> sa_sort_3way_radix(sa_collect(txt, 0, flags, cap, <<>>).sa,
                                  Len(sa_collect(txt, 0, flags, cap, <<>>).sa), txt)]

RECURSIVE sa_cmp_suffix_key_lex(_, _, _, _)
sa_cmp_suffix_key_lex(txt, p, key, i) ==
  IF i < Len(key) /\ p < Len(txt)
  THEN IF txt[p + 1] < key[i + 1] THEN -1
       ELSE IF txt[p + 1] > key[i + 1] THEN 1
       ELSE sa_cmp_suffix_key_lex(txt, p + 1, key, i + 1)
  ELSE IF i = Len(key) THEN (IF p = Len(txt) THEN 0 ELSE 1)
  ELSE -1

RECURSIVE sa_cmp_suffix_key_prefix(_, _, _, _)
sa_cmp_suffix_key_prefix(txt, p, key, i) ==
  IF i < Len(key) /\ p < Len(txt)
  THEN IF txt[p + 1] # key[i + 1] THEN (IF txt[p + 1] < key[i + 1] THEN -1 ELSE 1)
       ELSE sa_cmp_suffix_key_prefix(txt, p + 1, key, i + 1)
  ELSE IF i = Len(key) THEN (IF p = Len(txt) THEN 0 ELSE 1)
  ELSE -1

\* The key incremented at byte i (counted from the end), cut after it; <<>>
\* when every byte is 0xFF.
RECURSIVE sa_next_key_from(_, _)
sa_next_key_from(tmp, i) ==
  IF i = 0 THEN <<>>
  ELSE IF tmp[i] # 255 THEN SubSeq([tmp EXCEPT ![i] = tmp[i] + 1], 1, i)
  ELSE sa_next_key_from(tmp, i - 1)

sa_make_next_key(tmp_cap, key) ==
  IF tmp_cap = 0 \/ Len(key) = 0 THEN <<>>
  ELSE sa_next_key_from(SubSeq(key, 1, MinOf({Len(key), tmp_cap})), MinOf({Len(key), tmp_cap}))

RECURSIVE sa_lower_bound_lex(_, _, _, _, _, _)
sa_lower_bound_lex(txt, s, key, pos_off, lo, hi) ==
  IF lo >= hi THEN lo
  ELSE IF sa_cmp_suffix_key_lex(txt, s[lo + (hi - lo) \div 2 + 1] + pos_off, key, 0) < 0
  THEN sa_lower_bound_lex(txt, s, key, pos_off, lo + (hi - lo) \div 2 + 1, hi)
  ELSE sa_lower_bound_lex(txt, s, key, pos_off, lo, lo + (hi - lo) \div 2)

\* The upper bound of the slow path of sa_utf8_count_prefix.
RECURSIVE sa_upper_slow(_, _, _, _, _)
sa_upper_slow(txt, s, key, lo, hi) ==
  IF lo >= hi THEN lo
  ELSE IF sa_cmp_suffix_key_prefix(txt, s[lo + (hi - lo) \div 2 + 1], key, 0) <= 0
  THEN sa_upper_slow(txt, s, key, lo + (hi - lo) \div 2 + 1, hi)
  ELSE sa_upper_slow(txt, s, key, lo, lo + (hi - lo) \div 2)

\* while (i < end && cmp_prefix(sa[i]) != 0) ++i, and with matches = TRUE
\* while (i < end && cmp_prefix(sa[i]) == 0) ++i.
RECURSIVE sa_scan_up(_, _, _, _, _, _)
sa_scan_up(txt, s, key, i, end, matches) ==
  IF i < end /\ ((sa_cmp_suffix_key_prefix(txt, s[i + 1], key, 0) = 0) = matches)
  THEN sa_scan_up(txt, s, key, i + 1, end, matches)
  ELSE i

\* while (h > l && cmp_prefix(sa[h - 1]) != 0) --h
RECURSIVE sa_scan_down(_, _, _, _, _)
sa_scan_down(txt, s, key, h, l) ==
  IF h > l /\ sa_cmp_suffix_key_prefix(txt, s[h], key, 0) # 0
  THEN sa_scan_down(txt, s, key, h - 1, l)
  ELSE h

sa_count_between(txt, s, key, low, high) ==
  IF high > low
  THEN MaxOf({0, sa_scan_down(txt, s, key, high, sa_scan_up(txt, s, key, low, high, FALSE))
                   - sa_scan_up(txt, s, key, low, high, FALSE)})
  ELSE 0

\* sa_utf8_count_prefix(view, key, key_len) on the view (txt, s)
sa_utf8_count_prefix(txt, s, key) ==
  IF Len(key) = 0 THEN 0
  ELSE IF Len(s) = 0 THEN 0
  ELSE IF Len(key) > NEXT_KEY_BUF
  THEN MaxOf({0, sa_upper_slow(txt, s, key, sa_lower_bound_lex(txt, s, key, 0, 0, Len(s)), Len(s))
                   - sa_lower_bound_lex(txt, s, key, 0, 0, Len(s))})
  ELSE IF sa_make_next_key(NEXT_KEY_BUF, key) = <<>>
  THEN MaxOf({0, sa_scan_up(txt, s, key, sa_lower_bound_lex(txt, s, key, 0, 0, Len(s)),
                            Len(s), TRUE)
                   - sa_lower_bound_lex(txt, s, key, 0, 0, Len(s))})
  ELSE sa_count_between(txt, s, key, sa_lower_bound_lex(txt, s, key, 0, 0, Len(s)),
                        sa_lower_bound_lex(txt, s, sa_make_next_key(NEXT_KEY_BUF, key), 0,
                                           sa_lower_bound_lex(txt, s, key, 0, 0, Len(s)),
                                           Len(s)))

SaTextBytes == {32, 97, 98, 195, 169}

SaKeyBytes == {97, 98, 169, 255}

SaFlags == {0, SA_BUILD_SKIP_ASCII_SPACE, SA_BUILD_VALIDATE_UTF8}

InitSa ==
  /\ TrieIdle
  /\ DecodeIdle
  /\ offs = offs_idle
  /\ tok = offs_idle
  /\ um = [op |-> "idle"]
  /\ fit = offs_idle
  /\ mf = offs_idle
  /\ ll = offs_idle
  /\ ccv = offs_idle
  /\ sup = offs_idle
  /\ scan = offs_idle
  /\ emi = offs_idle
  /\ \E n \in 0..MaxSaText : \E t \in [1..n -> SaTextBytes] :
       \E flags \in SaFlags : \E cap \in {MaxSaText - 1, MaxSaText} :
          sa = [pc |-> "text", text |-> t, flags |-> flags, cap |-> cap,
                n |-> 0, sa |-> <<>>, key |-> <<>>, count |-> 0]

SaUnchanged == UNCHANGED <<trieVars, decodeVars, offs, tok, um, fit, mf, ll, ccv, sup, scan, emi>>

SaBuild ==
  /\ sa.pc = "text"
  /\ \E r \in {sa_utf8_build(sa.cap, sa.text, sa.flags)} :
       sa' = [sa EXCEPT !.pc = IF r.n = 0 THEN "failed" ELSE "built", !.n = r.n, !.sa = r.sa]
  /\ SaUnchanged

SaCountPrefix ==
  /\ sa.pc = "built"
  /\ \E k \in 1..MaxSaKey : \E key \in [1..k -> SaKeyBytes] :
       sa' = [sa EXCEPT !.pc = "counted", !.key = key,
                        !.count = sa_utf8_count_prefix(sa.text, SubSeq(sa.sa, 1, sa.n), key)]
  /\ SaUnchanged

NextSa == SaBuild \/ SaCountPrefix

SpecSa == InitSa /\ [][NextSa]_vars

\* The suffix of the txt at byte offset p starts with key.
StartsWith(txt, p, key) ==
  p + Len(key) <= Len(txt) /\ SubSeq(txt, p + 1, p + Len(key)) = key

\* C24: count_prefix(key) is the number of suffix-array entries whose suffix
\* starts with key.
C24_CountPrefixCountsOccurrences ==
  sa.pc = "counted" =>
     sa.count = Cardinality({i \in 1..sa.n : StartsWith(sa.text, sa.sa[i], sa.key)})


(***************************************************************************)
(* The character classifiers: npycrf_char_class_cp, the resolver of the    *)
(* runtime, and mmjp_char_class_by_cp, with which the supervised CRF       *)
(* trainer of mmjp_train.c labels the codepoints of its training lines.    *)
(***************************************************************************)
mmjp_char_class_by_cp(cp) ==
  IF cp = 0 THEN NPYCRF_CC_OTHER
  ELSE IF cp \in {32, 9, 10, 13} THEN NPYCRF_CC_SPACE
  ELSE IF cp >= 48 /\ cp <= 57 THEN NPYCRF_CC_DIGIT
  ELSE IF (cp >= 65 /\ cp <= 90) \/ (cp >= 97 /\ cp <= 122) THEN NPYCRF_CC_ALPHA
  ELSE IF cp >= 12352 /\ cp <= 12447 THEN NPYCRF_CC_HIRAGANA
  ELSE IF (cp >= 12448 /\ cp <= 12543) \/ (cp >= 12784 /\ cp <= 12799) THEN NPYCRF_CC_KATAKANA
  ELSE IF (cp >= 19968 /\ cp <= 40959) \/ (cp >= 13312 /\ cp <= 19903) THEN NPYCRF_CC_KANJI
  ELSE IF cp >= 65281 /\ cp <= 65376
  THEN IF cp >= 65296 /\ cp <= 65305 THEN NPYCRF_CC_DIGIT
       ELSE IF (cp >= 65313 /\ cp <= 65338) \/ (cp >= 65345 /\ cp <= 65370)
       THEN NPYCRF_CC_ALPHA
       ELSE NPYCRF_CC_FULLWIDTH
  ELSE IF (cp >= 8192 /\ cp <= 8303) \/ (cp >= 12288 /\ cp <= 12351)
            \/ (cp >= 65377 /\ cp <= 65381)
  THEN NPYCRF_CC_SYMBOL
  ELSE NPYCRF_CC_OTHER

\* The fixed rule of the ASCII range, written out.
AsciiRule(cp) ==
  IF cp \in {9, 10, 13, 32} THEN NPYCRF_CC_SPACE
  ELSE IF cp \in 48..57 THEN NPYCRF_CC_DIGIT
  ELSE IF cp \in (65..90) \cup (97..122) THEN NPYCRF_CC_ALPHA
  ELSE NPYCRF_CC_SYMBOL

CcCodepoints ==
  (0..127) \cup (9599..9605)
    \cup {128, 233, 8192, 12288, 12352, 12448, 12784, 13312, 19968, 65281, 65296, 65313,
          65377, 128512}

\* Range tables: sorted, and one of them over the meta-codepoints and over
\* ASCII letters.
CcRangeTables ==
  {<<>>,
   <<[lo |-> 97, hi |-> 122, class_id |-> 20], [lo |-> 9600, hi |-> 9604, class_id |-> 21]>>,
   <<[lo |-> 128, hi |-> 1114111, class_id |-> 22]>>}

CcConfigs ==
  {CC_NULL}
    \cup {[null |-> FALSE, mode |-> md, fallback |-> fb, ranges |-> rg, range_count |-> Len(rg)] :
            md \in 0..4, fb \in {NPYCRF_CC_MODE_ASCII, NPYCRF_CC_MODE_UTF8LEN},
            rg \in CcRangeTables}

InitCc ==
  /\ TrieIdle
  /\ DecodeIdle
  /\ offs = offs_idle
  /\ tok = offs_idle
  /\ um = [op |-> "idle"]
  /\ fit = offs_idle
  /\ mf = offs_idle
  /\ ll = offs_idle
  /\ sa = offs_idle
  /\ sup = offs_idle
  /\ scan = offs_idle
  /\ emi = offs_idle
  /\ \E cp \in CcCodepoints : \E cc \in CcConfigs :
       ccv = [pc |-> "cp", cp |-> cp, cc |-> cc, who |-> "none", class |-> 0]

CcUnchanged == UNCHANGED <<trieVars, decodeVars, offs, tok, um, fit, mf, ll, sa, sup, scan, emi>>

\* The runtime resolves the class of the codepoint under the configuration.
ClassifyRuntime ==
  /\ ccv.pc = "cp"
  /\ ccv' = [ccv EXCEPT !.pc = "classified", !.who = "runtime",
                        !.class = npycrf_char_class_cp(ccv.cc, ccv.cp)]
  /\ CcUnchanged

\* crf_parse_segmented_line of the CRF trainer classifies the codepoint.
ClassifyTrainer ==
  /\ ccv.pc = "cp"
  /\ ccv' = [ccv EXCEPT !.pc = "classified", !.who = "trainer",
                        !.class = mmjp_char_class_by_cp(ccv.cp)]
  /\ CcUnchanged

NextCc == ClassifyRuntime \/ ClassifyTrainer

SpecCc == InitCc /\ [][NextCc]_vars

\* C25: every classifier (the resolver in every mode and the classifier of
\* the CRF trainer) gives SPACE for U+2580..U+2584 and, for an ASCII
\* codepoint, SPACE for tab, LF, CR and space, DIGIT for digits, ALPHA for
\* letters and SYMBOL for everything else.
C25_MetaAndAsciiFixed ==
  ccv.pc = "classified" =>
     /\ (ccv.cp \in 9600..9604 => ccv.class = NPYCRF_CC_SPACE)
     /\ (ccv.cp \in 0..127 => ccv.class = AsciiRule(ccv.cp))

(***************************************************************************)
(* The lattice of npycrf_decode as a full table: every segmentation of the *)
(* text with its path score, edge by edge as the forward scan adds them.   *)
(***************************************************************************)

\* The boundary sequences 0 = b[1] < ... < b[n] = n_cp with steps of at most L.
RECURSIVE Segmentations(_, _)
Segmentations(n_cp, L) ==
  IF n_cp = 0 THEN {<<0>>}
  ELSE UNION {{Append(b, n_cp) : b \in Segmentations(n_cp - k, L)} :
              k \in 1..(IF n_cp <= L THEN n_cp ELSE L)}

\* The edge into the word [b[i], b[i+1]) from the word before it (BOS for the
\* first word): the segment score plus the weighted bigram score.
edge_score(m, w, b, i) ==
  LET L == m.max_word_len
      s == b[i]
      t == b[i + 1]
      idx_curr == span_index(t, t - s, L)
      curr_id == At(w.span_id, idx_curr)
      curr_luni == At(w.span_luni, idx_curr)
      prev_id == IF i = 1 THEN NPYCRF_ID_BOS
                 ELSE At(w.span_id, span_index(s, s - b[i - 1], L))
  IN crf_seg_score(m, w, s, t)
     + q16_mul_q8(m.lambda0, lm_bigram_logp(m.lm, prev_id, curr_id, curr_luni))

RECURSIVE edge_sum(_, _, _, _)
edge_sum(m, w, b, i) ==
  IF i >= Len(b) THEN 0 ELSE edge_score(m, w, b, i) + edge_sum(m, w, b, i + 1)

\* bos_to1 plus the sum of the edge scores of the segmentation b.
path_score(m, w, b) == m.crf.bos_to1 + edge_sum(m, w, b, 1)

\* What the Viterbi decoder prepared for the model and the text.
Prepared == decode_prepare(the_model, text, Len(text), ws, FALSE, ws.max_n_cp + 1)

\* C26: for every text the decoder accepts, npycrf_decode on its ring of L + 1
\* rows returns 0, its score is the greatest path score of the segmentations
\* with words of at most max_word_len codepoints, and its boundaries are a
\* segmentation with that score.
C26_RingEqualsFullTable ==
  (vit.called /\ Prepared.rc = 0) =>
     LET S == Segmentations(Prepared.n_cp, model.max_word_len)
     IN /\ vit.rc = 0
        /\ vit.b \in S
        /\ path_score(the_model, Prepared.w, vit.b) = vit.score
        /\ \A b \in S : path_score(the_model, Prepared.w, b) <= vit.score

\* A decode of four codepoints with words of at most two, so that the ring of
\* three rows wrapped: the result has a word of two codepoints that ends after
\* the wrap, and another segmentation scores strictly less.
C26_Witness ==
  /\ vit.called /\ vit.rc = 0 /\ Prepared.rc = 0
  /\ Prepared.n_cp = 4 /\ model.max_word_len = 2
  /\ \E i \in 1..(Len(vit.b) - 1) : vit.b[i + 1] - vit.b[i] = 2 /\ vit.b[i + 1] >= 3
  /\ \E b \in Segmentations(4, 2) : path_score(the_model, Prepared.w, b) < vit.score

(***************************************************************************)
(* One state (pos, k) of the forward scan of npycrf_decode where texts and *)
(* words are long: the text is n_cp one-byte letters, the model has no     *)
(* features, dictionary or bigrams, and the ring holds what the scan of    *)
(* the earlier states left.                                                *)
(***************************************************************************)
MaxScanLen == 257
MaxScanWordLen == 257

\* The work arrays decode_prepare leaves for n_cp letters: no feature fires
\* and no word is in the dictionary.
scan_work(m, n_cp) ==
  LET L == m.max_word_len
      spanN == (n_cp + 1) * (L + 1)
  IN [emit0 |-> [x \in 1..n_cp |-> 0],
      emit1 |-> [x \in 1..n_cp |-> 0],
      pref_emit0 |-> [x \in 1..(n_cp + 1) |-> 0],
      span_id |-> [x \in 1..spanN |-> IF x = 1 THEN NPYCRF_ID_BOS ELSE NPYCRF_ID_NONE],
      span_luni |-> [x \in 1..spanN |->
                       LET end_cp == (x - 1) \div (L + 1)
                           l == (x - 1) % (L + 1)
                       IN IF end_cp >= 1 /\ l >= 1 /\ l <= (IF end_cp <= L THEN end_cp ELSE L)
                          THEN lm_unigram_logp(m.lm, NPYCRF_ID_NONE, l)
                          ELSE 0],
      bp_prevlen |-> [x \in 1..spanN |-> 0]]

\* The edge score of a word of l letters, whatever precedes it.
scan_word(m, l) ==
  crf_seg_score(m, scan_work(m, l), 0, l)
  + q16_mul_q8(m.lambda0, lm_unigram_logp(m.lm, NPYCRF_ID_NONE, l))

\* The best sum of edge scores over the segmentations of q letters, q at most
\* max_word_len unless max_word_len is 1: for the models of this part, whose
\* edge scores are at most 0 for one letter and grow with the word, one word
\* is best.
scan_prefix(m, q) ==
  IF q = 0 THEN 0
  ELSE IF m.max_word_len = 1 THEN q * scan_word(m, 1)
  ELSE scan_word(m, q)

\* dp[q][j] as the scan stored it: a score that is not above the sentinel was
\* never better than the initial best.
scan_dp(m, q, j) ==
  LET v == m.crf.bos_to1 + scan_word(m, j) + scan_prefix(m, q - j)
  IN IF v > NPYCRF_SCORE_NEG_INF THEN v ELSE NPYCRF_SCORE_NEG_INF

\* dp_ring when the scan reaches state (pos, k): row r holds the last position
\* q <= pos with q % (L + 1) = r; the row of pos was cleared and holds the
\* states (pos, j) with j < k.
scan_ring(m, pos, k) ==
  LET L == m.max_word_len
  IN [x \in 1..((L + 1) * (L + 1)) |->
        LET r == (x - 1) \div (L + 1)
            j == (x - 1) % (L + 1)
            q == pos - ((pos - r) % (L + 1))
        IN IF q < 0 THEN NPYCRF_SCORE_NEG_INF
           ELSE IF q = 0 THEN (IF j = 0 THEN m.crf.bos_to1 ELSE NPYCRF_SCORE_NEG_INF)
           ELSE IF q = pos
           THEN (IF j >= 1 /\ j < k THEN scan_dp(m, q, j) ELSE NPYCRF_SCORE_NEG_INF)
           ELSE IF j >= 1 /\ j <= (IF q <= L THEN q ELSE L) THEN scan_dp(m, q, j)
           ELSE NPYCRF_SCORE_NEG_INF]

scan_model(L, trans, lambda0, ub) ==
  [model_of(L, <<>>, trans, lambda0, <<>>, <<>>) EXCEPT !.lm.unk_base = ub]

\* Models that prefer long words, with a state whose predecessors include
\* words of max_word_len letters.
ScanLong ==
  {[pc |-> "ready", m |-> scan_model(L, tr, 0, -768), n_cp |-> L + 1,
    pos |-> pos, k |-> k, best |-> 0, bp |-> 0, cand |-> <<>>] :
     <<L, pos, k>> \in {t \in ({2, 3} \cup ((MaxScanWordLen - 2)..MaxScanWordLen))
                               \X (1..(MaxScanWordLen + 1)) \X (1..MaxScanWordLen) :
                          /\ t[2] \in {t[1], t[1] + 1}
                          /\ t[3] \in {1, 2, t[1]}},
     tr \in {[TransZero EXCEPT !.trans00 = t00, !.trans11 = t11, !.bos_to1 = b] :
               t00 \in {0, 1}, t11 \in {-1, 0}, b \in {0, 2}}}

\* Models of one-letter words whose edges are expensive, with a state far
\* into a long text.
ScanSteep ==
  {[pc |-> "ready", m |-> scan_model(1, tr, lambda0, ub), n_cp |-> MaxScanLen,
    pos |-> pos, k |-> 1, best |-> 0, bp |-> 0, cand |-> <<>>] :
     pos \in (MaxScanLen - 3)..MaxScanLen,
     lambda0 \in {2 ^ NPYCRF_Q, INT16_MAX},
     ub \in {-768, INT16_MIN},
     tr \in {[TransZero EXCEPT !.trans11 = t11, !.bos_to1 = b] :
               t11 \in {-128, 0}, b \in 0..2}}

InitScan ==
  /\ TrieIdle
  /\ DecodeIdle
  /\ offs = offs_idle /\ tok = offs_idle /\ um = [op |-> "idle"]
  /\ fit = offs_idle /\ mf = offs_idle
  /\ ll = offs_idle /\ sa = offs_idle /\ ccv = offs_idle /\ sup = offs_idle
  /\ emi = offs_idle
  /\ scan \in ScanLong \cup ScanSteep

\* The body of the loop over k for the state (pos, k): the scan over the
\* previous word lengths and the stores into dp_ring and bp_prevlen.
ScanState ==
  /\ scan.pc = "ready"
  /\ \E r \in {viterbi_state(scan.m, scan_work(scan.m, scan.n_cp),
                             [dp_ring |-> scan_ring(scan.m, scan.pos, scan.k),
                              bp_prevlen |-> scan_work(scan.m, scan.n_cp).bp_prevlen,
                              cand |-> scan_work(scan.m, scan.n_cp).bp_prevlen],
                             scan.pos, scan.k)} :
       LET L == scan.m.max_word_len
           idx_curr == span_index(scan.pos, scan.k, L)
       IN scan' = [scan EXCEPT !.pc = "scanned",
                               !.best = At(r.dp_ring, (scan.pos % (L + 1)) * (L + 1) + scan.k),
                               !.bp = At(r.bp_prevlen, idx_curr),
                               !.cand = At(r.cand, idx_curr)]
  /\ UNCHANGED <<trieVars, decodeVars, offs, tok, um, fit, mf, ll, sa, ccv, sup, emi>>

NextScan == ScanState

SpecScan == InitScan /\ [][NextScan]_vars

\* The previous word lengths for which the scanned state got a candidate.
ScanCandidates ==
  {j \in 0..scan.m.max_word_len : At(scan.cand, j) # NPYCRF_SCORE_NEG_INF}

\* C27: a state of the lattice of an accepted text gets a score above
\* NPYCRF_SCORE_NEG_INF, and every candidate score computed for it lies above
\* the sentinel and within 32 bits.
C27_ScoresAboveNegInf ==
  scan.pc = "scanned" =>
     /\ scan.best > NPYCRF_SCORE_NEG_INF
     /\ ScanCandidates # {}
     /\ \A j \in ScanCandidates :
           At(scan.cand, j) > NPYCRF_SCORE_NEG_INF /\ At(scan.cand, j) <= INT32_MAX

\* C28: when the candidates of a state lie above the sentinel, the back-pointer
\* stored for the state is the previous word length the scan chose, the
\* smallest one among the candidates with the best score.
C28_BackPointerIsChosen ==
  (/\ scan.pc = "scanned" /\ ScanCandidates # {}
   /\ \A j \in ScanCandidates : At(scan.cand, j) > NPYCRF_SCORE_NEG_INF) =>
     /\ scan.bp \in ScanCandidates
     /\ \A j \in ScanCandidates :
           /\ At(scan.cand, j) <= At(scan.cand, scan.bp)
           /\ At(scan.cand, j) = At(scan.cand, scan.bp) => scan.bp <= j

(***************************************************************************)
(* precompute_emissions of the decoders for a model that carries a         *)
(* character-class configuration.                                          *)
(***************************************************************************)
MaxEmitCps == 2

\* 'a', U+00E9, the lossless space mark, a Hiragana and a Kanji.
EmitCodepoints == {97, 233, 9601, 12354, 19968}

EmitTexts == SeqsUpTo(EmitCodepoints, MaxEmitCps) \ {<<>>}

InitEmit ==
  /\ TrieIdle
  /\ DecodeIdle
  /\ offs = offs_idle /\ tok = offs_idle /\ um = [op |-> "idle"]
  /\ fit = offs_idle /\ mf = offs_idle
  /\ ll = offs_idle /\ sa = offs_idle /\ ccv = offs_idle /\ sup = offs_idle
  /\ scan = offs_idle
  /\ \E cps \in EmitTexts, cc \in CcConfigs, feats \in FeatTables :
       emi = [pc |-> "text", cps |-> cps,
              m |-> [crf |-> model_of(1, feats, TransZero, 0, <<>>, <<>>).crf, cc |-> cc],
              rc |-> 0, emit0 |-> <<>>, emit1 |-> <<>>, classes |-> <<>>]

\* precompute_emissions(model, utf8, len, work->cp_off, n_cp, work) as the
\* decoders call it; classes logs the class of each codepoint that the
\* emission scores were computed from.
PrecomputeEmissions ==
  /\ emi.pc = "text"
  /\ LET utf8 == utf8_of(emi.cps)
         mo == npycrf_utf8_make_offsets(utf8, Len(utf8), MaxEmitCps + 1)
     IN \E r \in {precompute_emissions(emi.m, utf8, Len(utf8), mo.off, mo.n)} :
          emi' = [emi EXCEPT !.pc = "emitted", !.rc = r.rc,
                             !.emit0 = r.emit0, !.emit1 = r.emit1,
                             !.classes = [i \in 1..mo.n |->
                                            class_at(utf8, Len(utf8), mo.off, i - 1)]]
  /\ UNCHANGED <<trieVars, decodeVars, offs, tok, um, fit, mf, ll, sa, ccv, sup, scan>>

NextEmit == PrecomputeEmissions

SpecEmit == InitEmit /\ [][NextEmit]_vars

\* C29: the class from which precompute_emissions computes the emission scores
\* of a codepoint is the class npycrf_char_class_cp returns for the codepoint
\* under the cc configuration of the model.
C29_EmissionClassIsResolved ==
  (emi.pc = "emitted" /\ emi.rc = 0) =>
     /\ Len(emi.classes) = Len(emi.cps)
     /\ \A i \in 1..Len(emi.cps) :
           emi.classes[i] = npycrf_char_class_cp(emi.m.cc, emi.cps[i])

(***************************************************************************)
(* The score crf_train_supervised gives to the labels of a training        *)
(* sentence, and the CRF score the decoders give to the same segmentation. *)
(* Emission scores are the inputs: e0[i], e1[i] for labels 0 and 1.        *)
(***************************************************************************)
MaxSupLen == 4

\* The transition the trainer adds for a final label that is not 1->1 named
\* as the header names the weights (trans01: 0 -> 1).
final_transition_header_names(tr, y_last) ==
  IF y_last = 0 THEN tr.trans01 ELSE tr.trans11

\* The final transition into EOS, whose label is fixed to 1.
final_transition(tr, y_last) ==
  IF y_last = 0 THEN tr.trans10 ELSE tr.trans11

\* The transition weight the trainer adds between the labels yp and yc.
label_transition(tr, yp, yc) ==
  IF yp = 0 /\ yc = 0 THEN tr.trans00
  ELSE IF yp = 0 /\ yc = 1 THEN tr.trans10
  ELSE IF yp = 1 /\ yc = 0 THEN tr.trans01
  ELSE tr.trans11

\* The loop over i = 1..n-1 of the empirical score.
RECURSIVE empirical_from(_, _, _, _, _, _)
empirical_from(tr, e0, e1, y, i, st) ==
  IF i >= Len(y) THEN st
  ELSE empirical_from(tr, e0, e1, y, i + 1,
                      st + label_transition(tr, At(y, i - 1), At(y, i))
                         + (IF At(y, i) = 1 THEN At(e1, i) ELSE At(e0, i)))

\* st of crf_train_supervised for the labels y of a sentence.
empirical_score(tr, e0, e1, y) ==
  empirical_from(tr, e0, e1, y, 1, At(e1, 0)) + final_transition(tr, At(y, Len(y) - 1))

\* The labels of a segmentation: 1 at each word start, 0 inside words.
labels_of(b, n) == [i \in 1..n |-> IF \E x \in 1..(Len(b) - 1) : b[x] = i - 1 THEN 1 ELSE 0]

\* bos_to1 plus the segment scores of the words of b, as the decoders add them.
RECURSIVE crf_path_from(_, _, _, _)
crf_path_from(m, w, b, i) ==
  IF i >= Len(b) THEN 0
  ELSE crf_seg_score(m, w, b[i], b[i + 1]) + crf_path_from(m, w, b, i + 1)

crf_path_score(m, w, b) == m.crf.bos_to1 + crf_path_from(m, w, b, 1)

SupEmissions == {-3, 0, 5}

InitSup ==
  /\ TrieIdle
  /\ DecodeIdle
  /\ offs = offs_idle /\ tok = offs_idle /\ um = [op |-> "idle"]
  /\ fit = offs_idle /\ mf = offs_idle
  /\ ll = offs_idle /\ sa = offs_idle /\ ccv = offs_idle
  /\ scan = offs_idle /\ emi = offs_idle
  /\ \E n \in 1..MaxSupLen :
       \E b \in Segmentations(n, n), tr \in Transitions :
          \E e0 \in [1..n -> SupEmissions], e1 \in [1..n -> {0, 5}] :
             sup = [pc |-> "sentence", n |-> n, b |-> b, tr |-> tr, e0 |-> e0, e1 |-> e1,
                    trained |-> FALSE, st |-> 0, decoded |-> FALSE, score |-> 0]

SupUnchanged == UNCHANGED <<trieVars, decodeVars, offs, tok, um, fit, mf, ll, sa, ccv, scan, emi>>

\* crf_train_supervised computes the empirical score of the sentence.
TrainSupervised ==
  /\ ~sup.trained
  /\ sup' = [sup EXCEPT !.trained = TRUE,
                        !.st = empirical_score(sup.tr, sup.e0, sup.e1, labels_of(sup.b, sup.n))]
  /\ SupUnchanged

\* A decoder scores the segmentation from the same emissions and transitions.
DecodeSupervised ==
  /\ ~sup.decoded
  /\ sup' = [sup EXCEPT !.decoded = TRUE,
                        !.score = crf_path_score([max_word_len |-> sup.n, crf |-> sup.tr],
                                                 [emit1 |-> sup.e1,
                                                  pref_emit0 |-> prefix_sums(sup.e0, sup.n)],
                                                 sup.b)]
  /\ SupUnchanged

NextSup == TrainSupervised \/ DecodeSupervised

SpecSup == InitSup /\ [][NextSup]_vars

\* C30: for every segmentation of a sentence the decoder's CRF score, bos_to1
\* plus the segment scores, is bos_to1 plus the trainer's score of the labels
\* of the segmentation.
C30_DecoderScoreIsTrainerScore ==
  (sup.trained /\ sup.decoded) => sup.score = sup.tr.bos_to1 + sup.st

\* A sentence of four codepoints that ends in a word of three, with weights
\* that tell the four transitions apart, scored by both.
C30_Witness ==
  /\ sup.trained /\ sup.decoded
  /\ sup.n = 4 /\ sup.b = <<0, 1, 4>>
  /\ sup.tr.trans01 # sup.tr.trans10 /\ sup.tr.trans00 # 0
  /\ sup.e0[3] # 0 /\ sup.e1[2] # 0

====
